---- MODULE Spec2Model ----
(***************************************************************************)
(* Map view for Obsidian Bases: the view controller (MapView), the marker  *)
(* layer (MarkerManager) and the parts of the rendering engine they use.   *)
(*                                                                         *)
(* Execution model.  The program is single threaded and event driven.  A   *)
(* step of the model is one event handler (or one completion of a real     *)
(* asynchronous operation: a style fetch, an image load) together with all *)
(* the code that runs before the program next waits for such an operation. *)
(* Awaiting an already settled promise does not let another event in.      *)
(*                                                                         *)
(* Units.  Coordinates are integers in units of 0.00001 degree, so the     *)
(* tolerance 0.00001 of updateCenter is 1.  Zoom levels are integers.      *)
(***************************************************************************)
EXTENDS Integers, Sequences, FiniteSets, Bags, TLC

(***************************************************************************)
(* Bounds of the model                                                     *)
(***************************************************************************)
MaxTasks == 2
MaxUpdates == 2
MaxEvents == 2
MaxAttach == 3
MaxTimers == 3

(***************************************************************************)
(* Program constants                                                       *)
(***************************************************************************)
DEFAULT_MAP_HEIGHT == 400
DEFAULT_MAP_CENTER == <<0, 0>>
DEFAULT_MAP_ZOOM == 4
DefaultMinZoom == 0
DefaultMaxZoom == 18
ZoomFloor == 0
ZoomCeiling == 24
MinMapHeight == 100
MaxMapHeight == 2000
CenterTolerance == 1

\* config.get(key) of a key that is not set
NoNum == -1
NoStr == "unset"

Max2(a, b) == IF a >= b THEN a ELSE b
Min2(a, b) == IF a <= b THEN a ELSE b
Abs(a) == IF a < 0 THEN -a ELSE a

(***************************************************************************)
(* URLs are sequences of tokens, so that "contains a placeholder" is       *)
(* computed and not assumed.                                               *)
(***************************************************************************)
StyleUrlA == <<"https://a/style.json">>
TileUrlB == <<"https://b/", "{z}", "/", "{x}", "/", "{y}", ".png">>
TileUrlBDark == <<"https://b/dark/", "{z}", "/", "{x}", "/", "{y}", ".png">>
TileUrlV == <<"https://v/", "{z}", "/", "{x}", "/", "{y}", ".png">>
DefaultLightUrl == <<"https://tiles.openfreemap.org/styles/bright">>
DefaultDarkUrl == <<"https://tiles.openfreemap.org/styles/dark">>
NoUrl == <<>>

\* Variant: a template needs all three placeholders
isTileTemplateUrl_all(url) ==
    \A p \in {"{z}", "{x}", "{y}"} : \E i \in 1..Len(url) : url[i] = p

\* url.includes('{z}') || url.includes('{x}') || url.includes('{y}')
isTileTemplateUrl(url) ==
    \E i \in 1..Len(url) : url[i] \in {"{z}", "{x}", "{y}"}

\* styleUrl.match(/access_token=([^&]+)/): the text after "access_token=" up
\* to the next "&", NoUrl when there is none or it is empty.  A URL is a
\* sequence of pieces, and "access_token=" and "&" are pieces of their own.
AccessToken(url) ==
    LET at == {i \in 1..(Len(url) - 1) : url[i] = "access_token=" /\ url[i + 1] # "&"}
    IN  IF at = {} THEN NoUrl
        ELSE <<url[(CHOOSE i \in at : \A k \in at : i <= k) + 1]>>

\* Variant: the dark list is taken in the dark theme even when it is empty
StyleRequest_darkAlways(mapTiles, mapTilesDark, isDark) ==
    LET tileUrls == IF isDark THEN mapTilesDark ELSE mapTiles
        styleUrl == IF Len(tileUrls) = 0
                        THEN (IF isDark THEN DefaultDarkUrl ELSE DefaultLightUrl)
                    ELSE IF Len(tileUrls) = 1 /\ ~isTileTemplateUrl(tileUrls[1])
                        THEN tileUrls[1]
                    ELSE NoUrl
    IN  [styleUrl |-> styleUrl, tileUrls |-> tileUrls]

\* Which style getMapStyle is going to produce: the URL it will fetch (NoUrl for
\* none) and the tile URLs of the raster style it builds otherwise.
StyleRequest(mapTiles, mapTilesDark, isDark) ==
    LET tileUrls == IF isDark /\ Len(mapTilesDark) > 0 THEN mapTilesDark ELSE mapTiles
        styleUrl == IF Len(tileUrls) = 0
                        THEN (IF isDark THEN DefaultDarkUrl ELSE DefaultLightUrl)
                    ELSE IF Len(tileUrls) = 1 /\ ~isTileTemplateUrl(tileUrls[1])
                        THEN tileUrls[1]
                    ELSE NoUrl
    IN  [styleUrl |-> styleUrl, tileUrls |-> tileUrls]

\* A style as the engine is given it: the bare URL ("url"), the document
\* fetched from a URL ("json"; accessToken: what the Mapbox transform was
\* given, NoUrl when the document was not transformed), or a raster style
\* with its sources and layers
UrlStyle(styleUrl) ==
    [kind |-> "url", url |-> styleUrl, accessToken |-> NoUrl, sources |-> <<>>, layers |-> <<>>]
StyleJson(styleUrl) ==
    [kind |-> "json", url |-> styleUrl, accessToken |-> NoUrl, sources |-> <<>>, layers |-> <<>>]

\* transformMapboxStyle(styleJson, accessToken)
transformMapboxStyle(styleJson, accessToken) == [styleJson EXCEPT !.accessToken = accessToken]

\* The raster style: tileUrls.forEach((tileUrl, index) => ...), index from 0
TileSize == 256
RasterStyle(tileUrls) ==
    [kind |-> "raster", url |-> NoUrl, accessToken |-> NoUrl,
     sources |-> [i \in 1..Len(tileUrls) |->
                    [id |-> <<"custom-tiles-", i - 1>>, type |-> "raster",
                     tiles |-> <<tileUrls[i]>>, tileSize |-> TileSize]],
     layers |-> [i \in 1..Len(tileUrls) |->
                    [id |-> <<"custom-layer-", i - 1>>, type |-> "raster",
                     source |-> <<"custom-tiles-", i - 1>>]]]

\* What the fetch of a style document can come to
FetchOutcomes == {"ok", "throws", "notOk", "invalidJson"}

\* Variant: the document is transformed whether or not the URL has a token
resolveMapStyle_transformsAlways(req, outcome) ==
    IF req.styleUrl # NoUrl
        THEN IF outcome = "ok"
                THEN transformMapboxStyle(StyleJson(req.styleUrl), <<"pk">>)
                ELSE UrlStyle(req.styleUrl)
        ELSE RasterStyle(req.tileUrls)

\* getMapStyle from the style URL on.  outcome: fetch threw ("throws"),
\* response.ok was false ("notOk"), response.json() threw ("invalidJson"), or
\* the document was read ("ok").  Every failure is caught and the URL returned.
resolveMapStyle(req, outcome) ==
    IF req.styleUrl # NoUrl
        THEN IF outcome = "ok"
                THEN IF AccessToken(req.styleUrl) # NoUrl
                        THEN transformMapboxStyle(StyleJson(req.styleUrl),
                                                  AccessToken(req.styleUrl))
                        ELSE StyleJson(req.styleUrl)
                ELSE UrlStyle(req.styleUrl)
        ELSE RasterStyle(req.tileUrls)

\* The value getMapStyle resolves to.  fetched: the fetch answered OK with JSON.
getMapStyle(req, fetched) == resolveMapStyle(req, IF fetched THEN "ok" ELSE "throws")

NeedsFetch(req) == req.styleUrl # NoUrl

(***************************************************************************)
(* Plugin settings: the named background tile sets, in settings order.     *)
(***************************************************************************)
TileSetA == [id |-> "a", lightTiles |-> StyleUrlA, darkTiles |-> NoUrl]
TileSetB == [id |-> "b", lightTiles |-> TileUrlB, darkTiles |-> TileUrlBDark]
NoTileSets == <<>>
TwoTileSets == <<TileSetA, TileSetB>>
NoTileSetId == "null"

FindTileSet(tileSets, id) ==
    IF \E i \in 1..Len(tileSets) : tileSets[i].id = id
        THEN tileSets[CHOOSE i \in 1..Len(tileSets) :
                        /\ tileSets[i].id = id
                        /\ \A j \in 1..(i - 1) : tileSets[j].id # id]
        ELSE [id |-> NoTileSetId, lightTiles |-> NoUrl, darkTiles |-> NoUrl]

LightList(ts) == IF ts.lightTiles # NoUrl THEN <<ts.lightTiles>> ELSE <<>>
DarkList(ts) == IF ts.darkTiles # NoUrl THEN <<ts.darkTiles>> ELSE LightList(ts)

(***************************************************************************)
(* The view configuration the host keeps (this.config.get(key)) and the    *)
(* snapshot of it that onDataUpdated compares.                             *)
(***************************************************************************)
getConfigSnapshot(config) ==
    [null |-> FALSE,
     center |-> config.center,
     defaultZoom |-> config.defaultZoom,
     minZoom |-> config.minZoom,
     maxZoom |-> config.maxZoom,
     mapHeight |-> config.mapHeight,
     mapTiles |-> config.mapTiles,
     mapTilesDark |-> config.mapTilesDark]

\* lastConfigSnapshot = null; a field read through ?. is undefined, as is a
\* field JSON.stringify left out because it was not set.
NullSnapshot ==
    [null |-> TRUE, center |-> NoStr, defaultZoom |-> NoNum, minZoom |-> NoNum,
     maxZoom |-> NoNum, mapHeight |-> NoNum, mapTiles |-> <<>>, mapTilesDark |-> <<>>]

getNumericConfig(value, defaultValue, min, max) ==
    IF value = NoNum THEN defaultValue ELSE Min2(max, Max2(min, value))

\* The evaluated center, [lat, lng]: a literal evaluates to itself, a formula
\* depends on the active file, anything coordinateFromValue rejects is (0,0).
LiteralCenter == <<20, 10>>
FormulaCenter(activeFile) == IF activeFile = 1 THEN <<30, 40>> ELSE <<50, 60>>

getCenterFromConfig(config, activeFile) ==
    IF config.center = "literal" THEN LiteralCenter
    ELSE IF config.center = "formula" THEN FormulaCenter(activeFile)
    ELSE DEFAULT_MAP_CENTER

NullConfig ==
    [null |-> TRUE, mapHeight |-> DEFAULT_MAP_HEIGHT, defaultZoom |-> DEFAULT_MAP_ZOOM,
     center |-> DEFAULT_MAP_CENTER, maxZoom |-> DefaultMaxZoom, minZoom |-> DefaultMinZoom,
     mapTiles |-> <<>>, mapTilesDark |-> <<>>, currentTileSetId |-> NoTileSetId]

\* Variant: the first tile set of the settings is selected at every update
loadConfig_firstAlways(config, activeFile, embedded, tileSets, currentTileSetId) ==
    LET minZoom == getNumericConfig(config.minZoom, DefaultMinZoom, ZoomFloor, ZoomCeiling)
        maxZoom == getNumericConfig(config.maxZoom, DefaultMaxZoom, ZoomFloor, ZoomCeiling)
        defaultZoom == getNumericConfig(config.defaultZoom, DEFAULT_MAP_ZOOM, minZoom, maxZoom)
        mapHeight == IF embedded
                        THEN getNumericConfig(config.mapHeight, DEFAULT_MAP_HEIGHT,
                                              MinMapHeight, MaxMapHeight)
                        ELSE DEFAULT_MAP_HEIGHT
        found == FindTileSet(tileSets, currentTileSetId)
        selected == tileSets[1]
        base == [null |-> FALSE, mapHeight |-> mapHeight, defaultZoom |-> defaultZoom,
                 center |-> getCenterFromConfig(config, activeFile),
                 maxZoom |-> maxZoom, minZoom |-> minZoom,
                 mapTiles |-> <<>>, mapTilesDark |-> <<>>, currentTileSetId |-> NoTileSetId]
    IN  IF Len(config.mapTiles) > 0
            THEN [base EXCEPT !.mapTiles = config.mapTiles,
                              !.mapTilesDark = config.mapTilesDark]
        ELSE IF Len(tileSets) > 0
            THEN [base EXCEPT !.mapTiles = LightList(selected),
                              !.mapTilesDark = DarkList(selected),
                              !.currentTileSetId = selected.id]
        ELSE base

loadConfig(config, activeFile, embedded, tileSets, currentTileSetId) ==
    LET minZoom == getNumericConfig(config.minZoom, DefaultMinZoom, ZoomFloor, ZoomCeiling)
        maxZoom == getNumericConfig(config.maxZoom, DefaultMaxZoom, ZoomFloor, ZoomCeiling)
        defaultZoom == getNumericConfig(config.defaultZoom, DEFAULT_MAP_ZOOM, minZoom, maxZoom)
        mapHeight == IF embedded
                        THEN getNumericConfig(config.mapHeight, DEFAULT_MAP_HEIGHT,
                                              MinMapHeight, MaxMapHeight)
                        ELSE DEFAULT_MAP_HEIGHT
        found == FindTileSet(tileSets, currentTileSetId)
        selected == IF currentTileSetId # NoTileSetId /\ found.id # NoTileSetId
                        THEN found ELSE tileSets[1]
        base == [null |-> FALSE, mapHeight |-> mapHeight, defaultZoom |-> defaultZoom,
                 center |-> getCenterFromConfig(config, activeFile),
                 maxZoom |-> maxZoom, minZoom |-> minZoom,
                 mapTiles |-> <<>>, mapTilesDark |-> <<>>, currentTileSetId |-> NoTileSetId]
    IN  IF Len(config.mapTiles) > 0
            THEN [base EXCEPT !.mapTiles = config.mapTiles,
                              !.mapTilesDark = config.mapTilesDark]
        ELSE IF Len(tileSets) > 0
            THEN [base EXCEPT !.mapTiles = LightList(selected),
                              !.mapTilesDark = DarkList(selected),
                              !.currentTileSetId = selected.id]
        ELSE base

(***************************************************************************)
(* The dataset.  An entry carries what its property accessors give: the    *)
(* coordinates coordinateFromValue resolves ([lat, lng], or <<>> when the  *)
(* value does not resolve or the accessor throws), its icon and its color. *)
(***************************************************************************)
NoCoordinates == <<>>
\* Text values (icon names, color strings, image keys) are sequences of
\* one-character strings; NoText is both null and the empty string, which
\* the code treats alike (`icon || 'dot'`, `getCustomColor(...) || default`).
NoText == <<>>
Star == <<"s", "t", "a", "r">>
Red == <<"r", "e", "d">>
Entry1 == [id |-> 1, coordinates |-> <<33, 44>>, icon |-> Star, color |-> Red]
Entry2 == [id |-> 2, coordinates |-> <<35, 48>>, icon |-> NoText, color |-> NoText]
Entry3 == [id |-> 3, coordinates |-> NoCoordinates, icon |-> NoText, color |-> Red]
Entry4 == [id |-> 4, coordinates |-> <<36, 45>>, icon |-> Star, color |-> Red]
Entry5 == [id |-> 5, coordinates |-> <<37, 46>>, icon |-> NoText, color |-> NoText]
NoData == [present |-> FALSE, data |-> <<>>]
DataA == [present |-> TRUE, data |-> <<Entry1, Entry3, Entry2>>]
DataB == [present |-> TRUE, data |-> <<Entry2>>]
DataC == [present |-> TRUE, data |-> <<Entry1, Entry4, Entry2>>]

DefaultMarkerColor ==
    <<"v", "a", "r", "(", "-", "-", "b", "a", "s", "e", "s", "-", "m", "a", "p", "-">>
    \o <<"m", "a", "r", "k", "e", "r", "-", "b", "a", "c", "k", "g", "r", "o", "u", "n", "d", ")">>

getCustomIcon(entry) == entry.icon
getCustomColor(entry) == entry.color

\* The character class [a-zA-Z0-9]
AlphaNumeric ==
    {"a", "b", "c", "d", "e", "f", "g", "h", "i", "j", "k", "l", "m",
     "n", "o", "p", "q", "r", "s", "t", "u", "v", "w", "x", "y", "z",
     "A", "B", "C", "D", "E", "F", "G", "H", "I", "J", "K", "L", "M",
     "N", "O", "P", "Q", "R", "S", "T", "U", "V", "W", "X", "Y", "Z",
     "0", "1", "2", "3", "4", "5", "6", "7", "8", "9"}

IsAlphaNumeric(c) == c \in AlphaNumeric

\* Variant: the color is put in the key as written.
ColorKey_verbatim(color) == color

\* color.replace(/[^a-zA-Z0-9]/g, '')
ColorKey(color) == SelectSeq(color, IsAlphaNumeric)

\* The key of a marker without a custom SVG: `marker-${icon || 'dot'}-${colorKey}`
getMarkerImageKey(icon, color) ==
    <<"m", "a", "r", "k", "e", "r", "-">> \o (IF icon # NoText THEN icon ELSE <<"d", "o", "t">>)
        \o <<"-">> \o ColorKey(color)

ImageKeyOf(entry) ==
    getMarkerImageKey(getCustomIcon(entry),
                      IF getCustomColor(entry) # NoText THEN getCustomColor(entry)
                                                         ELSE DefaultMarkerColor)

\* Variant of ValidMarkers: the first entry without coordinates ends the loop
RECURSIVE ValidMarkers_stopsAtFirst(_)
ValidMarkers_stopsAtFirst(entries) ==
    IF entries = <<>> \/ Head(entries).coordinates = NoCoordinates THEN <<>>
    ELSE <<[entry |-> Head(entries), coordinates |-> Head(entries).coordinates]>>
            \o ValidMarkers_stopsAtFirst(Tail(entries))

RECURSIVE ValidMarkers(_)
ValidMarkers(entries) ==
    IF entries = <<>> THEN <<>>
    ELSE LET rest == ValidMarkers(Tail(entries))
         IN  IF Head(entries).coordinates # NoCoordinates
                THEN <<[entry |-> Head(entries), coordinates |-> Head(entries).coordinates]>>
                     \o rest
                ELSE rest

\* new LngLatBounds() extended by [lng, lat] of every marker
NullBounds == [state |-> "null", west |-> 0, south |-> 0, east |-> 0, north |-> 0]
EmptyBounds == [state |-> "empty", west |-> 0, south |-> 0, east |-> 0, north |-> 0]

RECURSIVE ExtendBounds(_, _)
ExtendBounds(bounds, markers) ==
    IF markers = <<>> THEN bounds
    ELSE LET lat == Head(markers).coordinates[1]
             lng == Head(markers).coordinates[2]
             next == IF bounds.state = "empty"
                        THEN [state |-> "box", west |-> lng, south |-> lat,
                              east |-> lng, north |-> lat]
                        ELSE [state |-> "box",
                              west |-> Min2(bounds.west, lng), south |-> Min2(bounds.south, lat),
                              east |-> Max2(bounds.east, lng), north |-> Max2(bounds.north, lat)]
         IN  ExtendBounds(next, Tail(markers))

\* [lng, lat] of the middle of a box
BoundsCenter(bounds) ==
    <<(bounds.west + bounds.east) \div 2, (bounds.south + bounds.north) \div 2>>

\* The zoom at which the engine shows the whole box with the padding: closer
\* for a single point than for a box with an extent.
FitZoom(bounds) ==
    IF bounds.west = bounds.east /\ bounds.south = bounds.north THEN 16 ELSE 9

\* Keys not in the cache yet, each once, in marker order
\* Variant of ImagesToLoad: every marker's key is queued
RECURSIVE ImagesToLoad_every(_, _, _)
ImagesToLoad_every(markers, loaded, queued) ==
    IF markers = <<>> THEN queued
    ELSE ImagesToLoad_every(Tail(markers), loaded,
                            Append(queued, ImageKeyOf(Head(markers).entry)))

RECURSIVE ImagesToLoad(_, _, _)
ImagesToLoad(markers, loaded, queued) ==
    IF markers = <<>> THEN queued
    ELSE LET imageKey == ImageKeyOf(Head(markers).entry)
         IN  IF imageKey \notin loaded /\ ~(\E i \in 1..Len(queued) : queued[i] = imageKey)
                THEN ImagesToLoad(Tail(markers), loaded, Append(queued, imageKey))
                ELSE ImagesToLoad(Tail(markers), loaded, queued)

createGeoJSONFeatures(markers) ==
    [index \in 1..Len(markers) |->
        [coordinates |-> <<markers[index].coordinates[2], markers[index].coordinates[1]>>,
         entryIndex |-> index,
         imageKey |-> ImageKeyOf(markers[index].entry)]]

(***************************************************************************)
(* Custom SVG markers.  An SVG document is what DOMParser gives for it:    *)
(* whether it parsed, the parser's message, the root element's tag and the *)
(* width, height and viewBox attributes as written (NoText when absent).   *)
(* Numbers are integers: the attribute values of the model carry no        *)
(* decimal point.  A quotient is kept as numerator and denominator, and a  *)
(* denominator 0 is what JavaScript gives as Infinity or NaN.              *)
(***************************************************************************)
SVG_MARKER_RENDER_SCALE == 2
SVG_MARKER_REFERENCE_SIZE == 48

Digit == {"0", "1", "2", "3", "4", "5", "6", "7", "8", "9"}
DigitValue(c) ==
    CASE c = "0" -> 0 [] c = "1" -> 1 [] c = "2" -> 2 [] c = "3" -> 3 [] c = "4" -> 4
      [] c = "5" -> 5 [] c = "6" -> 6 [] c = "7" -> 7 [] c = "8" -> 8 [] c = "9" -> 9

IsDigits(text) == text # <<>> /\ \A i \in DOMAIN text : text[i] \in Digit

RECURSIVE DigitsValue(_)
DigitsValue(text) ==
    IF text = <<>> THEN 0
    ELSE 10 * DigitsValue(SubSeq(text, 1, Len(text) - 1)) + DigitValue(text[Len(text)])

EndsWithPx(text) ==
    Len(text) >= 2 /\ text[Len(text) - 1] = "p" /\ text[Len(text)] = "x"

\* The digits a text starts with
RECURSIVE LeadingDigits(_)
LeadingDigits(text) ==
    IF text = <<>> \/ Head(text) \notin Digit THEN <<>>
    ELSE <<Head(text)>> \o LeadingDigits(Tail(text))

\* Variant: any value that starts with digits counts, as parseFloat alone would
parseNumericSvgValue_lenient(value) ==
    IF LeadingDigits(value) = <<>> THEN NoNum ELSE DigitsValue(LeadingDigits(value))

\* value.match(/^(\d+(?:\.\d+)?)(px)?$/), then parseFloat; NoNum is null
parseNumericSvgValue(value) ==
    IF value = NoText THEN NoNum
    ELSE LET number == IF EndsWithPx(value) THEN SubSeq(value, 1, Len(value) - 2) ELSE value
         IN  IF IsDigits(number) THEN DigitsValue(number) ELSE NoNum

\* viewBox.split(/[\s,]+/): the pieces between runs of separators, the empty
\* piece before a leading run and after a trailing one included
IsSeparator(c) == c \in {" ", ","}

RECURSIVE SplitParts(_, _, _)
SplitParts(text, piece, inRun) ==
    IF text = <<>> THEN <<piece>>
    ELSE IF IsSeparator(Head(text))
        THEN IF inRun THEN SplitParts(Tail(text), piece, TRUE)
                      ELSE <<piece>> \o SplitParts(Tail(text), <<>>, TRUE)
        ELSE SplitParts(Tail(text), Append(piece, Head(text)), FALSE)

\* Number(piece): 0 for the empty string, NaN for what is not a number
NotANumber == [nan |-> TRUE, value |-> 0]
Number(value) == [nan |-> FALSE, value |-> value]
ToNumber(piece) ==
    IF piece = <<>> THEN Number(0)
    ELSE IF IsDigits(piece) THEN Number(DigitsValue(piece))
    ELSE IF Head(piece) = "-" /\ IsDigits(Tail(piece)) THEN Number(0 - DigitsValue(Tail(piece)))
    ELSE NotANumber

ViewBoxParts(viewBox) ==
    LET pieces == SplitParts(viewBox, <<>>, FALSE)
    IN  [i \in DOMAIN pieces |-> ToNumber(pieces[i])]

Quotient(n, d) == [n |-> n, d |-> d]
Whole(n) == Quotient(n, 1)

NullDimensions == [null |-> TRUE, width |-> Whole(0), height |-> Whole(0), fixedSize |-> FALSE]
Dimensions(width, height, fixedSize) ==
    [null |-> FALSE, width |-> width, height |-> height, fixedSize |-> fixedSize]

getSvgDimensions(svgEl) ==
    LET width == parseNumericSvgValue(svgEl.width)
        height == parseNumericSvgValue(svgEl.height)
        parts == ViewBoxParts(svgEl.viewBox)
        usable == /\ svgEl.viewBox # NoText
                  /\ Len(parts) = 4
                  /\ \A i \in DOMAIN parts : ~parts[i].nan
        vbWidth == parts[3].value
        vbHeight == parts[4].value
    IN  IF width # NoNum /\ height # NoNum
            THEN Dimensions(Whole(width), Whole(height), TRUE)
        ELSE IF usable /\ width # NoNum
            THEN Dimensions(Whole(width), Quotient(width * vbHeight, vbWidth), TRUE)
        ELSE IF usable /\ height # NoNum
            THEN Dimensions(Quotient(height * vbWidth, vbHeight), Whole(height), TRUE)
        ELSE IF usable
            THEN Dimensions(Whole(vbWidth), Whole(vbHeight), FALSE)
        ELSE IF width # NoNum
            THEN Dimensions(Whole(width), Whole(width), FALSE)
        ELSE IF height # NoNum
            THEN Dimensions(Whole(height), Whole(height), FALSE)
        ELSE NullDimensions

NoError == ""
FallbackImage(svgError) ==
    [fallback |-> TRUE, width |-> Whole(0), height |-> Whole(0),
     fixedSize |-> FALSE, svgError |-> svgError]

\* createSvgMarkerImage up to the image's load: what is drawn (the fallback
\* glyph, or the SVG at finalWidth x finalHeight), fixedSize and svgError
createSvgMarkerImage(svgDoc) ==
    IF svgDoc.parsererror
        THEN FallbackImage(IF svgDoc.errorText # "" THEN svgDoc.errorText ELSE "Parse error")
    ELSE IF svgDoc.tagName # "svg"
        THEN FallbackImage("Expected <svg> element")
    ELSE LET dimensions == getSvgDimensions(svgDoc)
         IN  IF dimensions.null
                THEN FallbackImage("Custom SVG marker needs a viewBox and/or explicit width and height for correct rendering.")
             ELSE IF dimensions.fixedSize
                THEN [fallback |-> FALSE, width |-> dimensions.width,
                      height |-> dimensions.height, fixedSize |-> TRUE, svgError |-> NoError]
             ELSE LET maxDim == Max2(dimensions.width.n, dimensions.height.n)
                  IN  [fallback |-> FALSE,
                       width |-> Quotient(dimensions.width.n * SVG_MARKER_REFERENCE_SIZE, maxDim),
                       height |-> Quotient(dimensions.height.n * SVG_MARKER_REFERENCE_SIZE, maxDim),
                       fixedSize |-> FALSE, svgError |-> NoError]

\* createGeoJSONFeatures: what a feature takes from the cached image
SvgFeatureProperties(cachedImage) ==
    [fixedSize |-> cachedImage.fixedSize,
     svgError |-> cachedImage.svgError]

(***************************************************************************)
(* Coordinates from a property value.  A value is a list of values, a      *)
(* string, a number (with the text toString gives) or something else.  A   *)
(* parsed number is in units of 0.00001 degree; the texts of the model     *)
(* carry no exponent and at most five decimals.                            *)
(***************************************************************************)
CoordinateScale == 100000
FractionDigits == 5
MaxLat == 90 * CoordinateScale
MaxLng == 180 * CoordinateScale

ListValue(items) == [kind |-> "list", text |-> <<>>, items |-> items]
StringValue(text) == [kind |-> "string", text |-> text, items |-> <<>>]
NumberValue(text) == [kind |-> "number", text |-> text, items |-> <<>>]
NullValue == [kind |-> "null", text |-> <<>>, items |-> <<>>]

RECURSIVE TrimStart(_)
TrimStart(text) ==
    IF text # <<>> /\ Head(text) = " " THEN TrimStart(Tail(text)) ELSE text

RECURSIVE TrimEnd(_)
TrimEnd(text) ==
    IF text # <<>> /\ text[Len(text)] = " "
        THEN TrimEnd(SubSeq(text, 1, Len(text) - 1)) ELSE text

Trim(text) == TrimEnd(TrimStart(text))

\* text.split(',')
RECURSIVE SplitComma(_, _)
SplitComma(text, piece) ==
    IF text = <<>> THEN <<piece>>
    ELSE IF Head(text) = "," THEN <<piece>> \o SplitComma(Tail(text), <<>>)
    ELSE SplitComma(Tail(text), Append(piece, Head(text)))

RECURSIVE Pow10(_)
Pow10(n) == IF n = 0 THEN 1 ELSE 10 * Pow10(n - 1)

\* The value of the decimals, in units of 0.00001
FractionValue(digits) ==
    LET kept == SubSeq(digits, 1, Min2(Len(digits), FractionDigits))
    IN  DigitsValue(kept) * Pow10(FractionDigits - Len(kept))

\* The numeral a text starts with: sign, digits, decimals, and what follows
Numeral(text) ==
    LET signed == text # <<>> /\ Head(text) \in {"-", "+"}
        body == IF signed THEN Tail(text) ELSE text
        whole == LeadingDigits(body)
        afterWhole == SubSeq(body, Len(whole) + 1, Len(body))
        decimals == IF afterWhole # <<>> /\ Head(afterWhole) = "."
                        THEN LeadingDigits(Tail(afterWhole)) ELSE <<>>
        used == Len(whole) + (IF afterWhole # <<>> /\ Head(afterWhole) = "."
                                 THEN 1 + Len(decimals) ELSE 0)
    IN  [found |-> whole # <<>> \/ decimals # <<>>,
         value |-> (IF signed /\ Head(text) = "-" THEN -1 ELSE 1)
                    * (DigitsValue(whole) * CoordinateScale + FractionValue(decimals)),
         rest |-> SubSeq(body, used + 1, Len(body))]

\* parseFloat(text): the numeral after leading white space, whatever follows
ParseFloat(text) ==
    LET numeral == Numeral(TrimStart(text))
    IN  IF numeral.found THEN Number(numeral.value) ELSE NotANumber

\* Number(text): the whole text is a numeral; the empty text is 0
StrictNumber(text) ==
    LET numeral == Numeral(Trim(text))
    IN  IF Trim(text) = <<>> THEN Number(0)
        ELSE IF numeral.found /\ numeral.rest = <<>> THEN Number(numeral.value)
        ELSE NotANumber

\* Variant: a number is taken from a number value only
parseCoordinate_numbersOnly(value) ==
    IF value.kind = "number" THEN StrictNumber(value.text) ELSE NotANumber

\* parseCoordinate: NotANumber is null
parseCoordinate(value) ==
    IF value.kind = "number" THEN StrictNumber(value.text)
    ELSE IF value.kind = "string" THEN ParseFloat(value.text)
    ELSE NotANumber

\* Variant: the latitude is given the longitude's range
verifyLatLng_wide(lat, lng) ==
    /\ lat >= 0 - MaxLng /\ lat <= MaxLng
    /\ lng >= 0 - MaxLng /\ lng <= MaxLng

verifyLatLng(lat, lng) ==
    /\ lat >= 0 - MaxLat /\ lat <= MaxLat
    /\ lng >= 0 - MaxLng /\ lng <= MaxLng

\* `lat && lng`: null and 0 are both falsy
Truthy(number) == ~number.nan /\ number.value # 0

\* Variant: only null is turned down, 0 is a coordinate
Accepted_zeroAllowed(lat, lng) ==
    ~lat.nan /\ ~lng.nan /\ verifyLatLng(lat.value, lng.value)

Accepted(lat, lng) ==
    Truthy(lat) /\ Truthy(lng) /\ verifyLatLng(lat.value, lng.value)

\* coordinateFromValue: [lat, lng], or NoCoordinates for null
coordinateFromValue(value) ==
    LET parts == SplitComma(Trim(value.text), <<>>)
        lat == IF value.kind = "list" /\ Len(value.items) >= 2
                    THEN parseCoordinate(value.items[1])
               ELSE IF value.kind = "string" /\ Len(parts) >= 2
                    THEN parseCoordinate(StringValue(Trim(parts[1])))
               ELSE NotANumber
        lng == IF value.kind = "list" /\ Len(value.items) >= 2
                    THEN parseCoordinate(value.items[2])
               ELSE IF value.kind = "string" /\ Len(parts) >= 2
                    THEN parseCoordinate(StringValue(Trim(parts[2])))
               ELSE NotANumber
    IN  IF Accepted(lat, lng) THEN <<lat.value, lng.value>> ELSE NoCoordinates

\* getCenterFromConfig, last line: the evaluated value, or the default center
CenterFromValue(value) ==
    IF coordinateFromValue(value) # NoCoordinates
        THEN coordinateFromValue(value) ELSE DEFAULT_MAP_CENTER

\* The 'load' handler's hasConfiguredCenter
CenterIsConfigured(center) == center[1] # 0 \/ center[2] # 0

\* updateMarkers and createGeoJSONFeatures for one entry whose coordinates
\* property holds the value
FeaturesOfValue(value) ==
    createGeoJSONFeatures(ValidMarkers(
        <<[id |-> 1, coordinates |-> coordinateFromValue(value),
           icon |-> NoText, color |-> NoText]>>))

(***************************************************************************)
(* The popup's view of the dataset: the property list of the dataset, the  *)
(* properties the configuration gives a role, and what entry.getValue      *)
(* gives for each property.  A value is a Value of the host, or ThrowsValue *)
(* when the accessor throws.                                               *)
(***************************************************************************)
CoordinatesProp == "note.location"
MarkerIconProp == "note.icon"
MarkerColorProp == "note.color"
MarkerSvgProp == "note.svg"
TitleProp == "note.title"
TagsProp == "note.tags"

\* The roles showPopup is called with (mapConfig.coordinatesProp, ...)
Roles == [coordinatesProp |-> CoordinatesProp, markerIconProp |-> MarkerIconProp,
          markerColorProp |-> MarkerColorProp, markerSvgProp |-> MarkerSvgProp]

ThrowsValue == [kind |-> "throws", text |-> <<>>, items |-> <<>>]
Blank == <<" ">>

\* entry.getValue(prop).  Entry 1 has a title; entry 2 has nothing to display
\* (a list of empty items, and a blank text in the markup property, which
\* getCustomSvg trims to nothing); the title of entry 4 cannot be read and
\* one of its tags is not empty; entry 5 has a title and a tag inside a list
\* of lists.
getValue(entry, prop) ==
    CASE prop = CoordinatesProp -> StringValue(<<"3", "3", ",", "4", "4">>)
      [] prop = MarkerIconProp -> StringValue(entry.icon)
      [] prop = MarkerColorProp -> StringValue(entry.color)
      [] prop = MarkerSvgProp ->
            IF entry.id = 2 THEN StringValue(Blank) ELSE NullValue
      [] prop = TitleProp ->
            CASE entry.id = 1 -> StringValue(<<"H">>)
              [] entry.id = 4 -> ThrowsValue
              [] entry.id = 5 -> StringValue(<<"T">>)
              [] OTHER -> NullValue
      [] prop = TagsProp ->
            CASE entry.id = 2 -> ListValue(<<StringValue(<<>>), ListValue(<<>>)>>)
              [] entry.id = 4 -> ListValue(<<StringValue(<<>>), StringValue(<<"t">>)>>)
              [] entry.id = 5 ->
                    ListValue(<<ListValue(<<>>),
                                ListValue(<<StringValue(<<>>), StringValue(<<"x">>)>>)>>)
              [] OTHER -> ListValue(<<>>)
      [] OTHER -> NullValue

\* Value.isTruthy(): a text that is not empty, a list that is not empty
isTruthy(value) ==
    CASE value.kind = "string" -> value.text # <<>>
      [] value.kind = "list" -> value.items # <<>>
      [] OTHER -> FALSE

\* PopupManager.hasNonEmptyValue; `value &&` fails for null
RECURSIVE hasNonEmptyValue(_)
hasNonEmptyValue(value) ==
    IF value.kind = "null" \/ ~isTruthy(value) THEN FALSE
    ELSE IF value.kind = "list"
        THEN \E i \in 1..Len(value.items) : hasNonEmptyValue(value.items[i])
        ELSE TRUE

\* properties.slice(0, 20)
MaxPopupProperties == 20
\* Variant: every property is considered
Slice_all(props) == props

Slice(props) == SubSeq(props, 1, Min2(Len(props), MaxPopupProperties))

\* Variant: the markup property is displayed like any other
HasRole_withoutMarkup(prop, roles) ==
    prop \in {roles.coordinatesProp, roles.markerIconProp, roles.markerColorProp}

\* `prop === coordinatesProp || prop === markerIconProp || ...`: the property
\* has a role and is not displayed
HasRole(prop, roles) ==
    prop \in {roles.coordinatesProp, roles.markerIconProp, roles.markerColorProp,
              roles.markerSvgProp}

\* The loop body shared by hasAnyPropertyValues and createPopupContent: the
\* property is displayed; a getValue that throws is caught and skipped
Displayed(entry, prop, roles) ==
    /\ ~HasRole(prop, roles)
    /\ getValue(entry, prop).kind # "throws"
    /\ hasNonEmptyValue(getValue(entry, prop))

\* PopupManager.hasAnyPropertyValues
hasAnyPropertyValues(entry, properties, roles) ==
    \E i \in 1..Len(Slice(properties)) : Displayed(entry, Slice(properties)[i], roles)

\* PopupManager.createPopupContent: the properties with values, in order; the
\* first is the title (a link to the entry's file, present when there is
\* one), the rest are the label/value rows
createPopupContent(entry, properties, roles) ==
    LET Shown(prop) == Displayed(entry, prop, roles)
        propertiesWithValues == SelectSeq(Slice(properties), Shown)
    IN  [entry |-> entry.id,
         title |-> IF propertiesWithValues # <<>> THEN <<propertiesWithValues[1]>> ELSE <<>>,
         rows |-> IF propertiesWithValues # <<>> THEN Tail(propertiesWithValues) ELSE <<>>]

\* data.properties: no list, the properties of the dataset, and a list whose
\* twenty-first property is the first with a value
AllProperties ==
    <<CoordinatesProp, MarkerIconProp, MarkerColorProp, MarkerSvgProp, TagsProp, TitleProp>>
LongProperties == [i \in 1..MaxPopupProperties |-> MarkerIconProp] \o <<TitleProp>>
PropertyLists == {<<>>, AllProperties, LongProperties}

(***************************************************************************)
(* The rendering engine's map instance, as far as the program uses it.     *)
(***************************************************************************)
NoStyle ==
    [kind |-> "none", url |-> NoUrl, accessToken |-> NoUrl, sources |-> <<>>, layers |-> <<>>]
NoMap ==
    [id |-> 0, center |-> <<0, 0>>, zoom |-> 0, minZoom |-> 0, maxZoom |-> 0,
     style |-> NoStyle, sources |-> 0, features |-> <<>>, layers |-> 0,
     interactions |-> 0, images |-> EmptyBag, keepsImages |-> FALSE,
     loadPending |-> FALSE, restoring |-> FALSE,
     styleListeners |-> 0, styledata |-> FALSE, rebuilt |-> "unset",
     switcher |-> FALSE]

ClampZoom(m, zoom) == Min2(m.maxZoom, Max2(m.minZoom, zoom))

\* new Map({style, center, zoom, minZoom, maxZoom}); the 'load' handler that
\* initializeMap registers closes over isRestoringState
NewMap(id, style, center, zoom, minZoom, maxZoom, isRestoringState) ==
    [NoMap EXCEPT !.id = id, !.style = style, !.center = center,
                  !.minZoom = minZoom, !.maxZoom = maxZoom,
                  !.zoom = Min2(maxZoom, Max2(minZoom, zoom)),
                  !.loadPending = TRUE, !.restoring = isRestoringState]

\* setStyle drops the sources and layers added at run time and is followed by
\* a 'styledata' event.  m.rebuilt records whether the markers have been
\* published since the last setStyle ("unset": there was none), and whether
\* that was before ("early") or after ("yes") its 'styledata' event.  The images added at run time go with the old style
\* when the engine builds the new one from scratch, and stay when it can
\* change the old style into the new one (m.keepsImages).
EngineSetStyle(m, style) ==
    [m EXCEPT !.style = style, !.sources = 0, !.features = <<>>, !.layers = 0,
              !.images = IF m.keepsImages THEN @ ELSE EmptyBag,
              !.styledata = TRUE,
              !.rebuilt = "no"]

\* hasImage, removeImage, addImage
EngineHasImage(m, imageKey) == BagIn(imageKey, m.images)
EngineRemoveImage(m, imageKey) == [m EXCEPT !.images = @ (-) SetToBag({imageKey})]
EngineAddImage(m, imageKey) == [m EXCEPT !.images = @ (+) SetToBag({imageKey})]

\* setMinZoom / setMaxZoom keep the zoom inside the new range
EngineSetZoomRange(m, minZoom, maxZoom) ==
    [m EXCEPT !.minZoom = minZoom, !.maxZoom = maxZoom,
              !.zoom = Min2(maxZoom, Max2(minZoom, m.zoom))]

(***************************************************************************)
(* State                                                                   *)
(***************************************************************************)
VARIABLES
    config,              \* the host's view configuration, this.config.get(key)
    data,                \* this.data, the current dataset
    activeFile,          \* what the center formula is evaluated against
    isDark,              \* app.isDarkMode()
    embedded,            \* isEmbedded(): the view sits in an embed
    tileSets,            \* plugin.settings.tileSets
    map,                 \* MapView.map and MarkerManager.map (set together)
    orphans,             \* maps constructed and no longer referenced, load not fired
    mapsCreated,         \* number of Map instances constructed so far
    mapConfig,           \* MapView.mapConfig
    pendingMapState,     \* MapView.pendingMapState
    isFirstLoad,         \* MapView.isFirstLoad
    lastConfigSnapshot,  \* MapView.lastConfigSnapshot
    lastEvaluatedCenter, \* MapView.lastEvaluatedCenter
    mapElHeight,         \* mapEl.style.height (0 for '')
    markers,             \* MarkerManager.markers
    bounds,              \* MarkerManager.bounds
    loadedMarkerImages,  \* MarkerManager.loadedMarkerImages (its keys)
    keepsImages,         \* the engine keeps run-time images over a setStyle
    tasks,               \* the asynchronous operations the program is waiting for
    calls,               \* what the last step called, with the state it was called in
    hist,                \* what the environment has done so far
    popup,               \* PopupManager, its Popup and the window's timers
    input,               \* the arguments a function is being applied to
    output               \* what the function returned for them

vars == <<config, data, activeFile, isDark, embedded, tileSets, map, orphans,
          mapsCreated, mapConfig, pendingMapState, isFirstLoad, lastConfigSnapshot,
          lastEvaluatedCenter, mapElHeight, markers, bounds, loadedMarkerImages,
          keepsImages, tasks, calls, hist, popup, input, output>>

\* The whole state as one value, so that a handler is a function of it
World ==
    [config |-> config, data |-> data, activeFile |-> activeFile, isDark |-> isDark,
     embedded |-> embedded, tileSets |-> tileSets, map |-> map, orphans |-> orphans,
     mapsCreated |-> mapsCreated, mapConfig |-> mapConfig,
     pendingMapState |-> pendingMapState, isFirstLoad |-> isFirstLoad,
     lastConfigSnapshot |-> lastConfigSnapshot,
     lastEvaluatedCenter |-> lastEvaluatedCenter, mapElHeight |-> mapElHeight,
     markers |-> markers, bounds |-> bounds, loadedMarkerImages |-> loadedMarkerImages,
     keepsImages |-> keepsImages,
     tasks |-> tasks, calls |-> <<>>, hist |-> hist, popup |-> popup]

Becomes(w) ==
    /\ config' = w.config
    /\ data' = w.data
    /\ activeFile' = w.activeFile
    /\ isDark' = w.isDark
    /\ embedded' = w.embedded
    /\ tileSets' = w.tileSets
    /\ map' = w.map
    /\ orphans' = w.orphans
    /\ mapsCreated' = w.mapsCreated
    /\ mapConfig' = w.mapConfig
    /\ pendingMapState' = w.pendingMapState
    /\ isFirstLoad' = w.isFirstLoad
    /\ lastConfigSnapshot' = w.lastConfigSnapshot
    /\ lastEvaluatedCenter' = w.lastEvaluatedCenter
    /\ mapElHeight' = w.mapElHeight
    /\ markers' = w.markers
    /\ bounds' = w.bounds
    /\ loadedMarkerImages' = w.loadedMarkerImages
    /\ keepsImages' = w.keepsImages
    /\ tasks' = w.tasks
    /\ calls' = w.calls
    /\ hist' = w.hist
    /\ popup' = w.popup
    /\ UNCHANGED <<input, output>>

\* The state a call was made in
NoCtx ==
    [firstLoad |-> FALSE, restore |-> FALSE, old |-> NullSnapshot, new |-> NullSnapshot,
     center |-> <<0, 0>>, target |-> <<0, 0>>, lastCenter |-> <<0, 0>>,
     defaultZoom |-> NoNum]

Ctx(w, old, new) ==
    [firstLoad |-> w.isFirstLoad,
     restore |-> ~w.pendingMapState.null,
     old |-> old,
     new |-> new,
     center |-> w.map.center,
     target |-> <<w.mapConfig.center[2], w.mapConfig.center[1]>>,
     lastCenter |-> <<w.lastEvaluatedCenter[2], w.lastEvaluatedCenter[1]>>,
     defaultZoom |-> w.config.defaultZoom]

Log(w, op, ctx) == [w EXCEPT !.calls = Append(@, [op |-> op, ctx |-> ctx])]

NoPending == [null |-> TRUE, hasCenter |-> FALSE, center |-> <<0, 0>>,
              hasZoom |-> FALSE, zoom |-> 0]

Idle ==
    [pc |-> "idle", snapshot |-> NullSnapshot, configChanged |-> FALSE,
     centerChanged |-> FALSE, oldSnapshot |-> NullSnapshot,
     req |-> [styleUrl |-> NoUrl, tileUrls |-> <<>>],
     validMarkers |-> <<>>, toLoad |-> <<>>, chained |-> FALSE, decided |-> NoCtx]

Slots == 1..MaxTasks
IdleSlots(w) == {s \in Slots : w.tasks[s].pc = "idle"}
FreeSlot(w) == CHOOSE s \in IdleSlots(w) : \A r \in IdleSlots(w) : s <= r

EndTask(w, s) == [w EXCEPT !.tasks[s] = Idle]


(***************************************************************************)
(* MarkerManager.updateMarkers                                             *)
(***************************************************************************)

\* onDataUpdated, after updateMarkers: the restored camera state is applied
\* and dropped
\* Variant: the restored state is applied but kept
PendingApply_keeps(w) ==
    IF ~w.pendingMapState.null /\ w.map.id # 0
        THEN LET p == w.pendingMapState
                 m1 == IF p.hasCenter THEN [w.map EXCEPT !.center = p.center] ELSE w.map
                 m2 == IF p.hasZoom THEN [m1 EXCEPT !.zoom = ClampZoom(m1, p.zoom)] ELSE m1
             IN  Log([w EXCEPT !.map = m2], "onDataUpdated.restore", NoCtx)
        ELSE w

PendingApply(w) ==
    IF ~w.pendingMapState.null /\ w.map.id # 0
        THEN LET p == w.pendingMapState
                 m1 == IF p.hasCenter THEN [w.map EXCEPT !.center = p.center] ELSE w.map
                 m2 == IF p.hasZoom THEN [m1 EXCEPT !.zoom = ClampZoom(m1, p.zoom)] ELSE m1
             IN  Log([w EXCEPT !.map = m2, !.pendingMapState = NoPending],
                     "onDataUpdated.restore", NoCtx)
        ELSE w

\* onDataUpdated: "Track state for next comparison"
TrackCenter(w) ==
    IF ~w.mapConfig.null
        THEN [w EXCEPT !.lastEvaluatedCenter = w.mapConfig.center]
        ELSE w

\* Variant: the source is never found
SourceExists_never(m) == FALSE

SourceExists(m) == m.sources > 0

\* updateMarkers after the images: the features go to the 'markers' source,
\* which is created with its layer and handlers if the map has none
PublishFeatures(w, validMarkers) ==
    LET features == createGeoJSONFeatures(validMarkers)
        rebuilt == IF w.map.rebuilt = "unset" THEN "unset"
                   ELSE IF w.map.styledata THEN "early" ELSE "yes"
    IN  IF SourceExists(w.map)
            THEN Log([w EXCEPT !.map.features = features, !.map.rebuilt = rebuilt],
                     "setData", NoCtx)
            ELSE Log(Log(Log(
                    [w EXCEPT !.map.sources = @ + 1,
                              !.map.features = features,
                              !.map.rebuilt = rebuilt,
                              !.map.layers = @ + 1,
                              !.map.interactions = Min2(MaxAttach, @ + 1)],
                    "addSource", NoCtx), "addLayer", NoCtx), "setupMarkerInteractions", NoCtx)

\* The rest of updateMarkers after "await loadMarkerImages", and of the caller
\* after "await updateMarkers".  this.map.getSource on a destroyed map throws.
FinishMarkers(w, s) ==
    LET t == w.tasks[s]
    IN  IF w.map.id = 0
            THEN Log(EndTask(w, s), "TypeError", NoCtx)
            ELSE LET w1 == EndTask(PublishFeatures(w, t.validMarkers), s)
                 IN  IF t.chained
                        THEN TrackCenter(PendingApply(Log(w1, "onDataUpdated.markersDone", NoCtx)))
                        ELSE w1

\* loadMarkerImages: wait for the next image, or go on when none is left
LoadNext(w, s) ==
    IF w.tasks[s].toLoad = <<>>
        THEN FinishMarkers(w, s)
        ELSE [w EXCEPT !.tasks[s].pc = "loadMarkerImages"]

\* An updateMarkers that onDataUpdated started is waiting for its images
OthersLoading(w, s) ==
    \E r \in Slots \ {s} : w.tasks[r].pc = "loadMarkerImages" /\ w.tasks[r].chained

\* updateMarkers(data) up to its await; chained: called by onDataUpdated
updateMarkers(w, s, chained) ==
    IF w.map.id = 0 \/ ~w.data.present \/ w.mapConfig.null
        THEN IF chained
                THEN TrackCenter(PendingApply(Log(w, "onDataUpdated.markersDone", NoCtx)))
                ELSE w
        ELSE LET validMarkers == ValidMarkers(w.data.data)
                 w1 == [w EXCEPT !.markers = validMarkers,
                                 !.bounds = ExtendBounds(EmptyBounds, validMarkers),
                                 !.tasks[s] = [Idle EXCEPT
                                     !.pc = "loadMarkerImages",
                                     !.validMarkers = validMarkers,
                                     !.toLoad = ImagesToLoad(validMarkers,
                                                             w.loadedMarkerImages, <<>>),
                                     !.chained = chained],
                                 !.hist.overlapped = @ \/ (chained /\ OthersLoading(w, s))]
             IN  LoadNext(w1, s)

\* loadMarkerImages: "Force update of the image on theme change"
\* Variant: the image is added without a look at the registry
RegisterImage_addOnly(m, imageKey) == EngineAddImage(m, imageKey)

RegisterImage(m, imageKey) ==
    IF EngineHasImage(m, imageKey)
        THEN EngineAddImage(EngineRemoveImage(m, imageKey), imageKey)
        ELSE EngineAddImage(m, imageKey)

\* Variant: a rejected creation ends the batch, and nothing is published
imageLoaded_failureEndsBatch(w, s, ok) ==
    LET imageKey == Head(w.tasks[s].toLoad)
    IN  IF ~ok THEN EndTask(Log(w, "console.warn", NoCtx), s)
        ELSE LET w1 == IF w.map.id # 0
                          THEN Log([w EXCEPT !.map = RegisterImage(@, imageKey),
                                             !.loadedMarkerImages = @ \cup {imageKey}],
                                   "addImage", NoCtx)
                          ELSE w
             IN  LoadNext([w1 EXCEPT !.tasks[s].toLoad = Tail(@)], s)

\* An image was created (ok) or its creation was rejected, for the first key
\* the task waits for
imageLoaded(w, s, ok) ==
    LET imageKey == Head(w.tasks[s].toLoad)
        had == IF w.map.id # 0 /\ EngineHasImage(w.map, imageKey)
                  THEN Log(w, "removeImage", NoCtx) ELSE w
        w1 == IF ~ok THEN Log(w, "console.warn", NoCtx)
              ELSE IF w.map.id # 0
                THEN Log([had EXCEPT !.map = RegisterImage(@, imageKey),
                                     !.loadedMarkerImages = @ \cup {imageKey}],
                         "addImage", NoCtx)
                ELSE w
    IN  LoadNext([w1 EXCEPT !.tasks[s].toLoad = Tail(@)], s)

(***************************************************************************)
(* MapView: configuration diff and camera policy                           *)
(***************************************************************************)

\* updateZoom
hasConfiguredZoom(w) == w.config.defaultZoom # NoNum

updateZoom(w, ctx) ==
    IF w.map.id = 0 \/ w.mapConfig.null THEN w
    ELSE IF hasConfiguredZoom(w)
        THEN Log([w EXCEPT !.map.zoom = ClampZoom(w.map, w.mapConfig.defaultZoom)],
                 "updateZoom.setZoom", ctx)
        ELSE w

\* updateCenter
hasConfiguredCenter(w) == w.mapConfig.center[1] # 0 \/ w.mapConfig.center[2] # 0

centerActuallyChanged(currentCenter, targetCenter) ==
    \/ Abs(currentCenter[1] - targetCenter[1]) > CenterTolerance
    \/ Abs(currentCenter[2] - targetCenter[2]) > CenterTolerance

updateCenter(w, ctx) ==
    IF w.map.id = 0 \/ w.mapConfig.null THEN w
    ELSE IF hasConfiguredCenter(w)
        THEN LET targetCenter == <<w.mapConfig.center[2], w.mapConfig.center[1]>>
             IN  IF centerActuallyChanged(w.map.center, targetCenter)
                    THEN Log([w EXCEPT !.map.center = targetCenter],
                             "updateCenter.setCenter", ctx)
                    ELSE w
        ELSE w

\* applyConfigToMap: "Detect what changed"
centerConfigChanged(old, new) == old.center # new.center
zoomConfigChanged(old, new) == old.defaultZoom # new.defaultZoom
tilesChanged(old, new) ==
    old.mapTiles # new.mapTiles \/ old.mapTilesDark # new.mapTilesDark
heightChanged(old, new) == old.mapHeight # new.mapHeight

\* applyConfigToMap: the guards of its four parts, each after a variant of it

\* Variant: a pending restore is not looked at
ShouldUpdateZoom_ignoresRestore(w, old, new) ==
    w.isFirstLoad \/ zoomConfigChanged(old, new)

ShouldUpdateZoom(w, old, new) ==
    w.pendingMapState.null /\ (w.isFirstLoad \/ zoomConfigChanged(old, new))

\* Variant: a pending restore is not looked at
ShouldUpdateCenter_ignoresRestore(w, old, new) ==
    w.isFirstLoad \/ centerConfigChanged(old, new)

ShouldUpdateCenter(w, old, new) ==
    w.pendingMapState.null /\ (w.isFirstLoad \/ centerConfigChanged(old, new))

\* Variant: the style is resolved whatever changed
ShouldUpdateStyle_always(w, old, new) == TRUE

ShouldUpdateStyle(w, old, new) == w.isFirstLoad \/ tilesChanged(old, new)

\* Variant: the height is set whatever changed
ShouldUpdateHeight_always(w, old, new) == TRUE

ShouldUpdateHeight(w, old, new) == w.isFirstLoad \/ heightChanged(old, new)

\* onDataUpdated after applyConfigToMap or updateCenter: the markers
MarkersPart(w, s) ==
    IF w.map.id # 0 /\ w.data.present
        THEN updateMarkers(w, s, TRUE)
        ELSE TrackCenter(w)

\* onDataUpdated: after "await applyConfigToMap"
AfterApply(w, s) ==
    LET t == w.tasks[s]
    IN  MarkersPart([w EXCEPT !.lastConfigSnapshot = t.snapshot,
                              !.isFirstLoad = FALSE,
                              !.tasks[s] = Idle], s)

\* JSON.stringify(newStyle) !== JSON.stringify(this.map.getStyle()): the engine
\* serialises its current style, which can only come out equal when the style
\* is the one last set and nothing was added to it; sameSerialized says whether
\* it does then
StyleDiffers(m, newStyle, sameSerialized) ==
    ~(/\ newStyle = m.style
      /\ newStyle.kind # "url"
      /\ m.sources = 0
      /\ sameSerialized)

clearLoadedMarkerImages(w) ==
    Log([w EXCEPT !.loadedMarkerImages = {}], "clearLoadedMarkerImages", NoCtx)

\* applyConfigToMap: "Update map height for embedded views if height changed"
ApplyHeight(w, s) ==
    LET t == w.tasks[s]
    IN  IF ShouldUpdateHeight(w, t.oldSnapshot, t.snapshot)
            THEN Log([w EXCEPT !.mapElHeight =
                            IF w.embedded THEN w.mapConfig.mapHeight ELSE 0],
                     "applyConfigToMap.resize", Ctx(w, t.oldSnapshot, t.snapshot))
            ELSE w

\* applyConfigToMap from the point where getMapStyle has resolved.
\* this.map.getStyle() on a destroyed map throws.
ApplyAfterStyle(w, s, newStyle, sameSerialized) ==
    LET t == w.tasks[s]
    IN  IF w.map.id = 0
            THEN Log(EndTask(w, s), "TypeError", NoCtx)
            ELSE IF StyleDiffers(w.map, newStyle, sameSerialized)
                THEN AfterApply(ApplyHeight(clearLoadedMarkerImages(
                        Log([w EXCEPT !.map = EngineSetStyle(@, newStyle)],
                            "applyConfigToMap.setStyle", t.decided)), s), s)
                ELSE AfterApply(ApplyHeight(w, s), s)

\* applyConfigToMap(this.lastConfigSnapshot, configSnapshot) up to its await
applyConfigToMap(w, s, sameSerialized) ==
    LET t == w.tasks[s]
        old == w.lastConfigSnapshot
        new == t.snapshot
    IN  IF w.map.id = 0 \/ w.mapConfig.null THEN AfterApply(w, s)
        ELSE LET ctx == Ctx(w, old, new)
                 w1 == Log([w EXCEPT !.map = EngineSetZoomRange(@, w.mapConfig.minZoom,
                                                                   w.mapConfig.maxZoom),
                                     !.hist.firstLoads =
                                        IF w.isFirstLoad THEN @ + 1 ELSE @],
                           "applyConfigToMap", ctx)
                 w2 == IF ShouldUpdateZoom(w1, old, new) THEN updateZoom(w1, ctx) ELSE w1
                 w3 == IF ShouldUpdateCenter(w2, old, new) THEN updateCenter(w2, ctx) ELSE w2
                 w4 == [w3 EXCEPT !.tasks[s].oldSnapshot = old, !.tasks[s].decided = ctx]
             IN  IF ShouldUpdateStyle(w4, old, new)
                    THEN LET req == StyleRequest(w4.mapConfig.mapTiles,
                                                 w4.mapConfig.mapTilesDark, w4.isDark)
                             w5 == Log(w4, "applyConfigToMap.getMapStyle", ctx)
                         IN  IF NeedsFetch(req)
                                THEN [w5 EXCEPT !.tasks[s].pc = "applyConfigToMap.getMapStyle",
                                                !.tasks[s].req = req]
                                ELSE ApplyAfterStyle(w5, s, getMapStyle(req, TRUE),
                                                     sameSerialized)
                    ELSE AfterApply(ApplyHeight(w4, s), s)

(***************************************************************************)
(* MapView: initializeMap and onDataUpdated                                *)
(***************************************************************************)

\* onDataUpdated: the callback of initializeMap().then
\* Variant: the evaluated center is not compared
ShouldRecenter_always(w, t) ==
    w.map.id # 0 /\ ~w.isFirstLoad /\ w.pendingMapState.null

ShouldRecenter(w, t) ==
    w.map.id # 0 /\ ~w.isFirstLoad /\ t.centerChanged /\ w.pendingMapState.null

ThenCallback(w, s, sameSerialized) ==
    LET t == w.tasks[s]
    IN  IF t.configChanged
            THEN applyConfigToMap(w, s, sameSerialized)
        ELSE IF ShouldRecenter(w, t)
            THEN MarkersPart(EndTask(updateCenter(w, Ctx(w, w.lastConfigSnapshot, t.snapshot)), s), s)
        ELSE MarkersPart(EndTask(w, s), s)

\* initializeMap: "Determine initial position: prefer ephemeral state if
\* available, otherwise use config"
InitialCenter(w) ==
    IF ~w.pendingMapState.null /\ w.pendingMapState.hasCenter
        THEN w.pendingMapState.center
        ELSE <<w.mapConfig.center[2], w.mapConfig.center[1]>>

InitialZoom(w) ==
    IF ~w.pendingMapState.null /\ w.pendingMapState.hasZoom
        THEN w.pendingMapState.zoom
        ELSE w.mapConfig.defaultZoom

\* initializeMap from the point where getMapStyle has resolved: the map is
\* constructed, whether or not the view holds one by now
InitAfterStyle(w, s, mapStyle, sameSerialized) ==
    LET isRestoringState == ~w.pendingMapState.null
        created == [NewMap(w.mapsCreated + 1, mapStyle, InitialCenter(w),
                           InitialZoom(w), w.mapConfig.minZoom, w.mapConfig.maxZoom,
                           isRestoringState)
                        EXCEPT !.keepsImages = w.keepsImages,
                               !.switcher = Len(w.tileSets) > 1]
        left == IF w.map.id # 0 /\ w.map.loadPending
                    THEN w.orphans \cup {[id |-> w.map.id, restoring |-> w.map.restoring]}
                    ELSE w.orphans
        w1 == Log([w EXCEPT !.map = created, !.orphans = left,
                            !.mapsCreated = @ + 1,
                            !.popup.map = created.id],
                  "new Map", NoCtx)
    IN  ThenCallback(w1, s, sameSerialized)

\* initializeMap up to its await
initializeMap(w, s, sameSerialized) ==
    IF w.map.id # 0 THEN ThenCallback(w, s, sameSerialized)
    ELSE LET loaded == loadConfig(w.config, w.activeFile, w.embedded, w.tileSets,
                                  w.mapConfig.currentTileSetId)
             w1 == [w EXCEPT !.mapConfig = loaded,
                             !.mapElHeight = IF w.embedded THEN loaded.mapHeight ELSE 0]
             req == StyleRequest(loaded.mapTiles, loaded.mapTilesDark, w.isDark)
         IN  IF NeedsFetch(req)
                THEN [w1 EXCEPT !.tasks[s].pc = "initializeMap.getMapStyle",
                                !.tasks[s].req = req]
                ELSE InitAfterStyle(w1, s, getMapStyle(req, TRUE), sameSerialized)

\* onDataUpdated, for the configuration, dataset and active file the host has
\* just made current
onDataUpdated(w, s, sameSerialized) ==
    LET configSnapshot == getConfigSnapshot(w.config)
        configChanged == w.lastConfigSnapshot # configSnapshot
        loaded == loadConfig(w.config, w.activeFile, w.embedded, w.tileSets,
                             w.mapConfig.currentTileSetId)
        centerChanged == loaded.center # w.lastEvaluatedCenter
        w1 == [w EXCEPT !.mapConfig = loaded,
                        !.tasks[s] = [Idle EXCEPT !.pc = "onDataUpdated",
                                                  !.snapshot = configSnapshot,
                                                  !.configChanged = configChanged,
                                                  !.centerChanged = centerChanged]]
    IN  initializeMap(Log(w1, "onDataUpdated", NoCtx), s, sameSerialized)

\* The style fetch a task waits for has answered
styleFetched(w, s, fetched, sameSerialized) ==
    LET t == w.tasks[s]
        style == getMapStyle(t.req, fetched)
    IN  IF t.pc = "initializeMap.getMapStyle"
            THEN InitAfterStyle(w, s, style, sameSerialized)
            ELSE ApplyAfterStyle(w, s, style, sameSerialized)

(***************************************************************************)
(* MapView: theme change, background switcher, 'load', teardown, restore   *)
(***************************************************************************)

\* updateMapStyle from the point where getMapStyle has resolved.
\* this.map.setStyle on a destroyed map throws.
UpdateStyleAfter(w, s, newStyle) ==
    IF w.map.id = 0
        THEN Log(EndTask(w, s), "TypeError", NoCtx)
        ELSE LET w1 == Log([w EXCEPT !.map = EngineSetStyle(@, newStyle)],
                           "updateMapStyle.setStyle", NoCtx)
                 w2 == clearLoadedMarkerImages(w1)
             IN  EndTask([w2 EXCEPT !.map.styleListeners = @ + 1], s)

\* updateMapStyle up to its await
updateMapStyle(w, s) ==
    IF w.map.id = 0 \/ w.mapConfig.null THEN w
    ELSE LET req == StyleRequest(w.mapConfig.mapTiles, w.mapConfig.mapTilesDark, w.isDark)
         IN  IF NeedsFetch(req)
                THEN [w EXCEPT !.tasks[s] = [Idle EXCEPT !.pc = "updateMapStyle.getMapStyle",
                                                         !.req = req]]
                ELSE UpdateStyleAfter(w, s, getMapStyle(req, TRUE))

onThemeChange(w, s) ==
    IF w.map.id # 0 THEN updateMapStyle(Log(w, "onThemeChange", NoCtx), s) ELSE w

switchToTileSet(w, s, tileSetId) ==
    LET tileSet == FindTileSet(w.tileSets, tileSetId)
    IN  IF tileSet.id = NoTileSetId \/ w.mapConfig.null THEN w
        ELSE updateMapStyle(
                Log([w EXCEPT !.mapConfig.currentTileSetId = tileSetId,
                              !.mapConfig.mapTiles = LightList(tileSet),
                              !.mapConfig.mapTilesDark = DarkList(tileSet)],
                    "switchToTileSet", NoCtx), s)

\* The 'styledata' listeners that updateMapStyle registered with once(): each
\* starts an updateMarkers of the current dataset
RECURSIVE RunStyleListeners(_, _)
RunStyleListeners(w, n) ==
    IF n = 0 THEN w
    ELSE RunStyleListeners(updateMarkers(w, FreeSlot(w), FALSE), n - 1)

\* The 'load' handler that initializeMap registers, with the isRestoringState
\* it closed over.  getCenter and fitBounds of bounds nothing was added to
\* throw, which ends the handler.
\* Variant: the closure's isRestoringState is not looked at
LoadSkips_pendingOnly(w, isRestoringState) == ~w.pendingMapState.null

LoadSkips(w, isRestoringState) == isRestoringState \/ ~w.pendingMapState.null

LoadZoom(w) ==
    IF w.config.defaultZoom # NoNum /\ w.config.defaultZoom # 0
        THEN Log([w EXCEPT !.map.zoom = ClampZoom(w.map, w.mapConfig.defaultZoom)],
                 "load.setZoom", Ctx(w, NullSnapshot, NullSnapshot))
    ELSE IF w.bounds.state = "box"
        THEN Log([w EXCEPT !.map.center = BoundsCenter(w.bounds),
                           !.map.zoom = ClampZoom(w.map, FitZoom(w.bounds))],
                 "load.fitBounds", NoCtx)
    ELSE w

LoadHandler(w, isRestoringState) ==
    IF w.map.id = 0 \/ w.mapConfig.null THEN w
    ELSE IF LoadSkips(w, isRestoringState) THEN w
    ELSE IF hasConfiguredCenter(w)
        THEN LoadZoom(Log([w EXCEPT !.map.center =
                                <<w.mapConfig.center[2], w.mapConfig.center[1]>>],
                          "load.setCenter", NoCtx))
    ELSE IF w.bounds.state = "box"
        THEN LoadZoom(Log([w EXCEPT !.map.center = BoundsCenter(w.bounds)],
                          "load.setCenter", NoCtx))
    ELSE IF w.bounds.state = "empty"
        THEN Log(w, "TypeError", NoCtx)
    ELSE LoadZoom(w)

(***************************************************************************)
(* PopupManager.  The Popup of the engine is on a map (onMap, the map's    *)
(* id) or on none; its element exists, with the listeners the 'open'       *)
(* handler gave it, while it is on a map.  The window's timers are the     *)
(* timers set and neither cleared nor run; time passes in ticks, and a     *)
(* timer can run once its delay has passed.                                *)
(***************************************************************************)
HideDelay == 150
TickMs == 50

NoSharedPopup == [null |-> TRUE, onMap |-> 0, content |-> <<>>, lngLat |-> <<0, 0>>]
NoGrace == [ticks |-> 0, shown |-> FALSE, entered |-> FALSE, hidden |-> FALSE]
NoPopupManager ==
    [map |-> 0, sharedPopup |-> NoSharedPopup, popupHideTimeout |-> 0,
     popupHideTimeoutWin |-> 0, timers |-> {}, nextTimer |-> 1, grace |-> NoGrace]

\* Variant: the timer is forgotten and stays set
clearPopupHideTimeout_forgets(w) ==
    [w EXCEPT !.popup.popupHideTimeoutWin = 0, !.popup.popupHideTimeout = 0]

\* clearPopupHideTimeout
clearPopupHideTimeout(w) ==
    [w EXCEPT !.popup.timers = IF w.popup.popupHideTimeout # 0
                                  THEN {t \in @ : t.id # w.popup.popupHideTimeout}
                                  ELSE @,
              !.popup.popupHideTimeoutWin = 0,
              !.popup.popupHideTimeout = 0]

\* sharedPopup.remove()
PopupRemove(w) == Log([w EXCEPT !.popup.sharedPopup.onMap = 0], "Popup.remove", NoCtx)

\* Variant: the callback runs at once
hidePopup_atOnce(w) ==
    LET w1 == clearPopupHideTimeout(w)
    IN  Log(IF ~w1.popup.sharedPopup.null THEN PopupRemove(w1) ELSE w1, "hidePopup", NoCtx)

\* hidePopup: win.setTimeout(callback, 150)
hidePopup(w) ==
    LET w1 == clearPopupHideTimeout(w)
        id == w1.popup.nextTimer
    IN  Log([w1 EXCEPT !.popup.popupHideTimeoutWin = 1,
                       !.popup.popupHideTimeout = id,
                       !.popup.timers = @ \cup {[id |-> id, remaining |-> HideDelay]},
                       !.popup.nextTimer = id + 1],
            "hidePopup", NoCtx)

\* The callback hidePopup gave to setTimeout
hideCallback(w) ==
    LET w1 == IF ~w.popup.sharedPopup.null THEN PopupRemove(w) ELSE w
    IN  Log([w1 EXCEPT !.popup.popupHideTimeout = 0, !.popup.popupHideTimeoutWin = 0],
            "hideCallback", NoCtx)

\* Variant: the pending hide is cancelled before the properties are looked at
showPopup_clearsFirst(w, entry, coordinates, properties, roles) ==
    IF w.popup.map = 0 THEN w
    ELSE LET w1 == clearPopupHideTimeout(w)
         IN  IF properties = <<>> \/ ~hasAnyPropertyValues(entry, properties, roles)
                THEN w1
                ELSE Log([w1 EXCEPT !.popup.sharedPopup =
                                [null |-> FALSE, onMap |-> w.popup.map,
                                 content |-> createPopupContent(entry, properties, roles),
                                 lngLat |-> <<coordinates[2], coordinates[1]>>]],
                         "Popup.addTo", NoCtx)

\* showPopup; roles: coordinatesProp, markerIconProp, markerColorProp and
\* markerSvgProp as the caller passes them
showPopup(w, entry, coordinates, properties, roles) ==
    IF w.popup.map = 0 THEN w
    ELSE IF properties = <<>> \/ ~hasAnyPropertyValues(entry, properties, roles) THEN w
    ELSE LET w1 == clearPopupHideTimeout(w)
             w2 == IF w1.popup.sharedPopup.null THEN Log(w1, "new Popup", NoCtx) ELSE w1
         IN  Log([w2 EXCEPT !.popup.sharedPopup =
                        [null |-> FALSE, onMap |-> w.popup.map,
                         content |-> createPopupContent(entry, properties, roles),
                         lngLat |-> <<coordinates[2], coordinates[1]>>]],
                 "Popup.addTo", NoCtx)

\* Variant: the popup goes and the timer stays
destroy_keepsTimer(w) ==
    IF ~w.popup.sharedPopup.null
        THEN [PopupRemove(w) EXCEPT !.popup.sharedPopup = NoSharedPopup]
        ELSE w

\* PopupManager.destroy
destroy(w) ==
    LET w1 == clearPopupHideTimeout(w)
    IN  IF ~w1.popup.sharedPopup.null
            THEN [PopupRemove(w1) EXCEPT !.popup.sharedPopup = NoSharedPopup]
            ELSE w1

\* The 'mouseenter' listener of setupMarkerInteractions on 'marker-pins', for
\* the feature under the pointer
markerEnter(w, entryIndex, properties) ==
    IF entryIndex \in 1..Len(w.markers) /\ w.data.present /\ ~w.mapConfig.null
        THEN showPopup(Log(w, "showPopup", [entry |-> w.markers[entryIndex].entry,
                                            properties |-> properties]),
                       w.markers[entryIndex].entry, w.markers[entryIndex].coordinates,
                       properties, Roles)
        ELSE w

\* An event of the map goes to every listener setupMarkerInteractions has
\* registered for it, in turn
RECURSIVE EnterListeners(_, _, _, _)
EnterListeners(w, n, entryIndex, properties) ==
    IF n = 0 THEN w
    ELSE EnterListeners(markerEnter(w, entryIndex, properties), n - 1, entryIndex, properties)

RECURSIVE LeaveListeners(_, _)
LeaveListeners(w, n) == IF n = 0 THEN w ELSE LeaveListeners(hidePopup(w), n - 1)

\* destroyMap: the popup manager is destroyed, the map is removed and the
\* marker manager forgets it; the popup manager keeps its reference
destroyMap(w) == Log([destroy(w) EXCEPT !.map = NoMap], "destroyMap", NoCtx)

\* setEphemeralState; state.falsy: the state is null or undefined
FalsyState == [falsy |-> TRUE, hasCenter |-> FALSE, center |-> <<0, 0>>,
               hasZoom |-> FALSE, zoom |-> 0]
EmptyState == [FalsyState EXCEPT !.falsy = FALSE]
FullState == [falsy |-> FALSE, hasCenter |-> TRUE, center |-> <<15, 25>>,
              hasZoom |-> TRUE, zoom |-> 5]
LowZoomState == [FullState EXCEPT !.zoom = 1]

setEphemeralState(w, state) ==
    IF state.falsy
        THEN [w EXCEPT !.pendingMapState = NoPending]
        ELSE [w EXCEPT !.pendingMapState =
                [null |-> FALSE, hasCenter |-> state.hasCenter, center |-> state.center,
                 hasZoom |-> state.hasZoom, zoom |-> state.zoom]]

(***************************************************************************)
(* Actions                                                                 *)
(***************************************************************************)
UnsetConfig ==
    [center |-> NoStr, defaultZoom |-> NoNum, minZoom |-> NoNum, maxZoom |-> NoNum,
     mapHeight |-> NoNum, mapTiles |-> <<>>, mapTilesDark |-> <<>>]

NoHist == [updates |-> 0, events |-> 0, moves |-> 0, restores |-> 0,
           restored |-> FalsyState, restoredNoMap |-> FALSE, overlapped |-> FALSE,
           tornDown |-> FALSE, themeOverlap |-> FALSE, chosen |-> NoTileSetId,
           unloaded |-> FALSE, firstLoads |-> 0]

InitState(embeddedSet, tileSetsSet, keepsImagesSet) ==
    /\ keepsImages \in keepsImagesSet
    /\ config = UnsetConfig
    /\ data = NoData
    /\ activeFile = 1
    /\ isDark = FALSE
    /\ embedded \in embeddedSet
    /\ tileSets \in tileSetsSet
    /\ map = NoMap
    /\ orphans = {}
    /\ mapsCreated = 0
    /\ mapConfig = NullConfig
    /\ pendingMapState = NoPending
    /\ isFirstLoad = TRUE
    /\ lastConfigSnapshot = NullSnapshot
    /\ lastEvaluatedCenter = DEFAULT_MAP_CENTER
    /\ mapElHeight = 0
    /\ markers = <<>>
    /\ bounds = NullBounds
    /\ loadedMarkerImages = {}
    /\ tasks = [s \in Slots |-> Idle]
    /\ calls = <<>>
    /\ hist = NoHist
    /\ popup = NoPopupManager

\* No function application is under way
NoInput == <<>>
NoOutput == <<>>

InitEngine(embeddedSet, tileSetsSet, keepsImagesSet) ==
    /\ InitState(embeddedSet, tileSetsSet, keepsImagesSet)
    /\ input = NoInput
    /\ output = NoOutput

InitWith(embeddedSet, tileSetsSet) == InitEngine(embeddedSet, tileSetsSet, {FALSE})

\* The host makes cfg, ds and file current and calls onDataUpdated
DataUpdated(cfg, ds, file, sameSerialized) ==
    /\ hist.updates < MaxUpdates
    /\ IdleSlots(World) # {}
    /\ Becomes(onDataUpdated([World EXCEPT !.config = cfg, !.data = ds,
                                           !.activeFile = file,
                                           !.hist.updates = @ + 1,
                                           !.hist.tornDown = FALSE,
                                           !.hist.chosen =
                                                IF cfg.mapTiles # <<>>
                                                    THEN NoTileSetId ELSE @],
                             FreeSlot(World), sameSerialized))

\* The style fetch of initializeMap or applyConfigToMap answers
StyleFetched(s, fetched, sameSerialized) ==
    /\ tasks[s].pc \in {"initializeMap.getMapStyle", "applyConfigToMap.getMapStyle"}
    /\ Becomes(styleFetched(Log(World, "styleFetched", NoCtx), s, fetched, sameSerialized))

\* The style fetch of updateMapStyle answers
ThemeStyleFetched(s, fetched) ==
    /\ tasks[s].pc = "updateMapStyle.getMapStyle"
    /\ Becomes(UpdateStyleAfter(Log(World, "styleFetched", NoCtx), s,
                                 getMapStyle(tasks[s].req, fetched)))

\* The image loadMarkerImages waits for is there, or could not be made
ImageLoaded(s, ok) ==
    /\ tasks[s].pc = "loadMarkerImages"
    /\ Becomes(imageLoaded(Log(World, "imageLoaded", NoCtx), s, ok))

\* The map's 'load' event
MapLoad ==
    /\ map.id # 0
    /\ map.loadPending
    /\ Becomes(LoadHandler(Log([World EXCEPT !.map.loadPending = FALSE], "load", NoCtx),
                           map.restoring))

\* The 'load' event of a map the view no longer references
OrphanLoad ==
    \E o \in orphans :
        Becomes(LoadHandler(Log([World EXCEPT !.orphans = @ \ {o}], "load", NoCtx),
                            o.restoring))

\* The map's 'styledata' event after a setStyle
StyleData ==
    /\ map.id # 0
    /\ map.styledata
    /\ Cardinality(IdleSlots(World)) >= map.styleListeners
    /\ Becomes(RunStyleListeners(Log([World EXCEPT !.map.styledata = FALSE,
                                                   !.map.styleListeners = 0],
                                     "styledata", NoCtx),
                                 map.styleListeners))

EnvEvent(w) == [w EXCEPT !.hist.events = @ + 1]

\* css-change
ThemeChange(dark) ==
    /\ hist.events < MaxEvents
    /\ IdleSlots(World) # {}
    /\ Becomes(onThemeChange(
            EnvEvent([World EXCEPT !.isDark = dark,
                                   !.hist.themeOverlap =
                                        /\ map.id # 0
                                        /\ \E s \in Slots :
                                              tasks[s].pc = "updateMapStyle.getMapStyle"]),
            FreeSlot(World)))

\* The user picks a background in the switcher, which a map has when there
\* was more than one tile set at its construction; its menu lists the tile
\* sets of the settings
SwitchTileSet(tileSetId) ==
    /\ hist.events < MaxEvents
    /\ map.id # 0
    /\ map.switcher
    /\ \E i \in 1..Len(tileSets) : tileSets[i].id = tileSetId
    /\ IdleSlots(World) # {}
    /\ Becomes(switchToTileSet([EnvEvent(World) EXCEPT !.hist.chosen = tileSetId],
                                FreeSlot(World), tileSetId))

\* The user adds, edits, deletes or moves tile sets in the settings tab
ChangeSettings(newTileSets) ==
    /\ hist.events < MaxEvents
    /\ newTileSets # tileSets
    /\ Becomes(Log([EnvEvent(World) EXCEPT
                        !.tileSets = newTileSets,
                        !.hist.chosen =
                            IF \E i \in 1..Len(newTileSets) : newTileSets[i].id = @
                                THEN @ ELSE NoTileSetId],
                    "settings", NoCtx))

\* The user pans and zooms the map
UserMove(center, zoom) ==
    /\ hist.events < MaxEvents
    /\ map.id # 0
    /\ Becomes(Log([EnvEvent(World) EXCEPT !.map.center = center,
                                           !.map.zoom = ClampZoom(map, zoom),
                                           !.hist.moves = @ + 1],
                   "user", NoCtx))

\* The host restores an ephemeral state
SetEphemeralState(state) ==
    /\ hist.events < MaxEvents
    /\ Becomes(Log(setEphemeralState(
                    [EnvEvent(World) EXCEPT !.hist.restores = @ + 1,
                                            !.hist.restored = state,
                                            !.hist.restoredNoMap = (map.id = 0 /\ mapsCreated = 0)],
                    state),
                   "setEphemeralState", NoCtx))

\* onunload
Unload ==
    /\ hist.events < MaxEvents
    /\ Becomes(destroyMap([EnvEvent(World) EXCEPT !.hist.tornDown = TRUE,
                                                !.hist.unloaded = TRUE]))

(***************************************************************************)
(* Specifications.  Each one lets the environment do part of what it can   *)
(* do, so that the part is explored in full.                               *)
(***************************************************************************)
UserCenters == {<<70, 80>>}
UserZooms == {7}
HighZoomState == [FullState EXCEPT !.zoom = 20]

\* Camera policy: the configured center and zoom change, the center formula
\* is re-evaluated, the user moves the map, a camera state is restored
CameraConfigs ==
    {[UnsetConfig EXCEPT !.center = c, !.defaultZoom = z] :
        c \in {NoStr, "literal", "formula"}, z \in {NoNum, 6}}

InitCamera == InitWith({TRUE}, {NoTileSets})

NextCamera ==
    \/ \E cfg \in CameraConfigs, ds \in {DataB}, file \in {1, 2}, same \in {TRUE} :
            DataUpdated(cfg, ds, file, same)
    \/ \E s \in Slots, fetched \in {TRUE}, same \in {TRUE} : StyleFetched(s, fetched, same)
    \/ \E s \in Slots, ok \in {TRUE} : ImageLoaded(s, ok)
    \/ MapLoad
    \/ OrphanLoad
    \/ \E center \in UserCenters, zoom \in UserZooms : UserMove(center, zoom)
    \/ \E state \in {FullState, HighZoomState} : SetEphemeralState(state)

SpecCamera == InitCamera /\ [][NextCamera]_vars

\* Style and height: the tile URLs and the embedded height change, the style
\* fetch succeeds or fails, the serialised styles compare equal or not
StyleConfigs ==
    {[UnsetConfig EXCEPT !.mapTiles = t, !.mapHeight = h] :
        t \in {<<>>, <<StyleUrlA>>, <<TileUrlB>>}, h \in {NoNum, 300}}

InitStyle == InitWith(BOOLEAN, {NoTileSets})

NextStyle ==
    \/ \E cfg \in StyleConfigs, ds \in {DataB}, file \in {1}, same \in BOOLEAN :
            DataUpdated(cfg, ds, file, same)
    \/ \E s \in Slots, fetched \in BOOLEAN, same \in BOOLEAN : StyleFetched(s, fetched, same)
    \/ \E s \in Slots, ok \in BOOLEAN : ImageLoaded(s, ok)
    \/ MapLoad
    \/ OrphanLoad
    \/ StyleData

SpecStyle == InitStyle /\ [][NextStyle]_vars

\* Markers: the dataset changes, images load or fail, the theme and the
\* background change, the view is unloaded
InitMarkers == InitWith({FALSE}, {TwoTileSets})

NextMarkers ==
    \/ \E cfg \in {UnsetConfig}, ds \in {DataA, DataB}, file \in {1}, same \in {TRUE} :
            DataUpdated(cfg, ds, file, same)
    \/ \E s \in Slots, fetched \in {TRUE}, same \in {TRUE} : StyleFetched(s, fetched, same)
    \/ \E s \in Slots, fetched \in {TRUE} : ThemeStyleFetched(s, fetched)
    \/ \E s \in Slots, ok \in BOOLEAN : ImageLoaded(s, ok)
    \/ MapLoad
    \/ OrphanLoad
    \/ StyleData
    \/ \E dark \in BOOLEAN : ThemeChange(dark)
    \/ \E tileSetId \in {TileSetB.id} : SwitchTileSet(tileSetId)
    \/ Unload

SpecMarkers == InitMarkers /\ [][NextMarkers]_vars

\* Marker images: markers share image keys, images are created or fail, the
\* theme changes, and the engine keeps its images over a setStyle or not
InitImages == InitEngine({FALSE}, {NoTileSets}, BOOLEAN)

NextImages ==
    \/ \E cfg \in {UnsetConfig}, ds \in {DataC, DataB}, file \in {1}, same \in {TRUE} :
            DataUpdated(cfg, ds, file, same)
    \/ \E s \in Slots, fetched \in {TRUE}, same \in {TRUE} : StyleFetched(s, fetched, same)
    \/ \E s \in Slots, fetched \in {TRUE} : ThemeStyleFetched(s, fetched)
    \/ \E s \in Slots, ok \in BOOLEAN : ImageLoaded(s, ok)
    \/ MapLoad
    \/ OrphanLoad
    \/ StyleData
    \/ \E dark \in BOOLEAN : ThemeChange(dark)

SpecImages == InitImages /\ [][NextImages]_vars

(***************************************************************************)
(* Image keys: createGeoJSONFeatures applied to two markers whose icon and *)
(* color are drawn from values that differ in punctuation only, in digits  *)
(* grouping only, or not at all.                                           *)
(***************************************************************************)
KeyIcons == {NoText, Star, <<"d", "o", "t">>}
KeyColors ==
    {NoText, Red,
     <<"#", "f", "0", "0">>,
     <<"f", "0", "0">>,
     <<"r", "g", "b", "(", "1", ",", "2", "3", ",", "4", ")">>,
     <<"r", "g", "b", "(", "1", "2", ",", "3", ",", "4", ")">>}
KeyMarkers ==
    {[entry |-> [id |-> i, coordinates |-> <<33, 44>>, icon |-> ic, color |-> co],
      coordinates |-> <<33, 44>>] : i \in {1}, ic \in KeyIcons, co \in KeyColors}

InitKeys ==
    /\ InitState({FALSE}, {NoTileSets}, {FALSE})
    /\ input \in {<<m1, m2>> : m1 \in KeyMarkers, m2 \in KeyMarkers}
    /\ output = NoOutput

CreateFeatures ==
    /\ output = NoOutput
    /\ output' = createGeoJSONFeatures(input)
    /\ UNCHANGED <<input, config, data, activeFile, isDark, embedded, tileSets, map,
                   orphans, mapsCreated, mapConfig, pendingMapState, isFirstLoad,
                   lastConfigSnapshot, lastEvaluatedCenter, mapElHeight, markers,
                   bounds, loadedMarkerImages, keepsImages, tasks, calls, hist, popup>>

NextKeys == CreateFeatures
SpecKeys == InitKeys /\ [][NextKeys]_vars

(***************************************************************************)
(* The same with the scheduling the host gives: a fetch, an image creation *)
(* and a 'styledata' event that are waited for do come.                    *)
(***************************************************************************)
\* When each completion can happen.  Every handler ends its step in another
\* state, so these are ENABLED <<A>>_vars of the completions, written out.
AwaitsStyle(s) == tasks[s].pc \in {"initializeMap.getMapStyle", "applyConfigToMap.getMapStyle"}
AwaitsThemeStyle(s) == tasks[s].pc = "updateMapStyle.getMapStyle"
AwaitsImage(s) == tasks[s].pc = "loadMarkerImages"
AwaitsStyleData ==
    /\ map.id # 0
    /\ map.styledata
    /\ Cardinality(IdleSlots(World)) >= map.styleListeners

\* Weak fairness of every completion: WF_vars(A) is
\* []<>(~ENABLED <<A>>_vars) \/ []<><<A>>_vars
FairImages ==
    /\ \A s \in Slots : WF_vars(ThemeStyleFetched(s, TRUE))
    /\ \A s \in Slots :
            \/ []<>(~AwaitsStyle(s))
            \/ []<><<\E same \in {TRUE} : StyleFetched(s, TRUE, same)>>_vars
    /\ \A s \in Slots :
            \/ []<>(~AwaitsImage(s))
            \/ []<><<\E ok \in BOOLEAN : ImageLoaded(s, ok)>>_vars
    /\ \/ []<>(~AwaitsStyleData)
       \/ []<><<StyleData>>_vars

InitReload == InitEngine({FALSE}, {NoTileSets}, BOOLEAN)

NextReload ==
    \/ \E cfg \in {UnsetConfig}, ds \in {DataC}, file \in {1}, same \in {TRUE} :
            DataUpdated(cfg, ds, file, same)
    \/ \E s \in Slots, fetched \in {TRUE}, same \in {TRUE} : StyleFetched(s, fetched, same)
    \/ \E s \in Slots, fetched \in {TRUE} : ThemeStyleFetched(s, fetched)
    \/ \E s \in Slots, ok \in BOOLEAN : ImageLoaded(s, ok)
    \/ StyleData
    \/ \E dark \in {TRUE} : ThemeChange(dark)

SpecReload == InitReload /\ [][NextReload]_vars /\ FairImages

(***************************************************************************)
(* SVG sizing: createSvgMarkerImage applied to a document, and the feature *)
(* made from what it cached.                                               *)
(***************************************************************************)
SvgLengths == {NoText, <<"2", "4">>, <<"3", "2", "p", "x">>, <<"5", "0", "%">>, <<"0">>}
SvgViewBoxes ==
    {NoText, <<"0", " ", "0", " ", "2", "4", " ", "1", "2">>, <<"0", ",", "0", ",", " ", "1", "2", " ", "2", "4">>,
     <<"0", " ", "0", " ", "0", " ", "0">>, <<"0", " ", "0", " ", "2", "4">>, <<"0", " ", "0", " ", "a", " ", "2", "4">>}
SvgDocuments ==
    {d \in [parsererror : BOOLEAN, errorText : {"", "XML parsing error"},
             tagName : {"svg", "html"}, width : SvgLengths, height : SvgLengths,
             viewBox : SvgViewBoxes] :
        /\ d.errorText # "" => d.parsererror
        /\ d.parsererror => d.tagName = "html"}

InitSvg ==
    /\ InitState({FALSE}, {NoTileSets}, {FALSE})
    /\ input \in SvgDocuments
    /\ output = NoOutput

CreateSvgMarker ==
    /\ output = NoOutput
    /\ output' = [image |-> createSvgMarkerImage(input),
                  properties |-> SvgFeatureProperties(createSvgMarkerImage(input))]
    /\ UNCHANGED <<input, config, data, activeFile, isDark, embedded, tileSets, map,
                   orphans, mapsCreated, mapConfig, pendingMapState, isFirstLoad,
                   lastConfigSnapshot, lastEvaluatedCenter, mapElHeight, markers,
                   bounds, loadedMarkerImages, keepsImages, tasks, calls, hist, popup>>

NextSvg == CreateSvgMarker
SpecSvg == InitSvg /\ [][NextSvg]_vars

(***************************************************************************)
(* Zoom configuration: loadConfig applied to every combination of the      *)
(* three zoom options, each unset, negative, in range or above the range,  *)
(* minZoom above maxZoom included.                                         *)
(***************************************************************************)
ZoomOptions == {NoNum, -3, 0, 3, 5, 10, 18, 24, 30}
ZoomConfigs ==
    {[UnsetConfig EXCEPT !.minZoom = lo, !.maxZoom = hi, !.defaultZoom = z] :
        lo \in ZoomOptions, hi \in ZoomOptions, z \in ZoomOptions}

InitZoom ==
    /\ InitState({FALSE}, {NoTileSets}, {FALSE})
    /\ input \in ZoomConfigs
    /\ output = NoOutput

LoadConfig ==
    /\ output = NoOutput
    /\ output' = loadConfig(input, activeFile, embedded, tileSets, NoTileSetId)
    /\ UNCHANGED <<input, config, data, activeFile, isDark, embedded, tileSets, map,
                   orphans, mapsCreated, mapConfig, pendingMapState, isFirstLoad,
                   lastConfigSnapshot, lastEvaluatedCenter, mapElHeight, markers,
                   bounds, loadedMarkerImages, keepsImages, tasks, calls, hist, popup>>

NextZoom == LoadConfig
SpecZoom == InitZoom /\ [][NextZoom]_vars

(***************************************************************************)
(* Coordinates: coordinateFromValue applied to every encoding of two       *)
(* components.  A component is a text with the number it stands for (in    *)
(* units of 0.00001 degree; nan when it stands for none) and whether a     *)
(* number value can have it as its text.  The value has one, two or three  *)
(* components.                                                             *)
(***************************************************************************)
Components ==
    {
     [text |-> <<"3", "4", ".", "5">>, nan |-> FALSE, value |-> 3450000, numeral |-> TRUE],
     [text |-> <<"-", "1", "1", "8", ".", "2", "5">>, nan |-> FALSE, value |-> -11825000, numeral |-> TRUE],
     [text |-> <<"5">>, nan |-> FALSE, value |-> 500000, numeral |-> TRUE],
     [text |-> <<"0">>, nan |-> FALSE, value |-> 0, numeral |-> TRUE],
     [text |-> <<"0", ".", "0">>, nan |-> FALSE, value |-> 0, numeral |-> TRUE],
     [text |-> <<"-", "0">>, nan |-> FALSE, value |-> 0, numeral |-> TRUE],
     [text |-> <<"9", "0">>, nan |-> FALSE, value |-> 9000000, numeral |-> TRUE],
     [text |-> <<"9", "0", ".", "5">>, nan |-> FALSE, value |-> 9050000, numeral |-> TRUE],
     [text |-> <<"-", "1", "8", "0">>, nan |-> FALSE, value |-> -18000000, numeral |-> TRUE],
     [text |-> <<"1", "8", "0", ".", "5">>, nan |-> FALSE, value |-> 18050000, numeral |-> TRUE],
     [text |-> <<"a", "b", "c">>, nan |-> TRUE, value |-> 0, numeral |-> FALSE],
     [text |-> <<>>, nan |-> TRUE, value |-> 0, numeral |-> FALSE],
     [text |-> <<"1", "2", "a", "b", "c">>, nan |-> FALSE, value |-> 1200000, numeral |-> FALSE]
    }
Extra == <<"7">>

AsNumber(component) ==
    IF component.numeral THEN NumberValue(component.text) ELSE NullValue
AsString(component) == StringValue(component.text)

Take(elems, count) == SubSeq(elems, 1, count)

RECURSIVE Joined(_, _)
Joined(texts, separator) ==
    IF Len(texts) = 1 THEN texts[1]
    ELSE texts[1] \o separator \o Joined(Tail(texts), separator)

Encodings(first, second, count) ==
    [listOfNumbers |->
        ListValue(Take(<<AsNumber(first), AsNumber(second), NumberValue(Extra)>>, count)),
     listOfStrings |->
        ListValue(Take(<<AsString(first), AsString(second), StringValue(Extra)>>, count)),
     text |->
        StringValue(Joined(Take(<<first.text, second.text, Extra>>, count), <<",">>)),
     textSpaced |->
        StringValue(Joined(Take(<<first.text, second.text, Extra>>, count), <<",", " ">>)),
     textPadded |->
        StringValue(<<" ">> \o Joined(Take(<<first.text, second.text, Extra>>, count),
                                      <<" ", ",", " ">>) \o <<" ">>)]
EncodingNames == {"listOfNumbers", "listOfStrings", "text", "textSpaced", "textPadded"}

InitCoordinates ==
    /\ InitState({FALSE}, {NoTileSets}, {FALSE})
    /\ input \in [first : Components, second : Components, count : 1..3]
    /\ output = NoOutput

ResolveCoordinates ==
    /\ output = NoOutput
    /\ output' =
        LET values == Encodings(input.first, input.second, input.count)
        IN  [resolved |-> [e \in EncodingNames |-> coordinateFromValue(values[e])],
             scalar |-> coordinateFromValue(AsNumber(input.first)),
             features |-> [e \in EncodingNames |-> FeaturesOfValue(values[e])],
             center |-> [e \in EncodingNames |-> CenterFromValue(values[e])]]
    /\ UNCHANGED <<input, config, data, activeFile, isDark, embedded, tileSets, map,
                   orphans, mapsCreated, mapConfig, pendingMapState, isFirstLoad,
                   lastConfigSnapshot, lastEvaluatedCenter, mapElHeight, markers,
                   bounds, loadedMarkerImages, keepsImages, tasks, calls, hist, popup>>

NextCoordinates == ResolveCoordinates
SpecCoordinates == InitCoordinates /\ [][NextCoordinates]_vars

(***************************************************************************)
(* The popup: the pointer enters and leaves the markers and the popup,     *)
(* time passes, the window runs the timers that are due, and the view is   *)
(* unloaded and shown again.  popup.grace records what has happened since  *)
(* the last hidePopup: the time passed, and whether a popup was shown or   *)
(* entered.                                                                *)
(***************************************************************************)
Since(w, what) ==
    CASE what = "hide" -> [w EXCEPT !.popup.grace = [NoGrace EXCEPT !.hidden = TRUE]]
      [] what = "show" ->
            IF \E i \in 1..Len(w.calls) : w.calls[i].op = "Popup.addTo"
                THEN [w EXCEPT !.popup.grace.shown = TRUE]
                ELSE w
      [] what = "enter" -> [w EXCEPT !.popup.grace.entered = TRUE]
      [] what = "tick" -> [w EXCEPT !.popup.grace.ticks = Min2(HideDelay, @ + TickMs)]

\* The pointer enters the marker of a feature: 'mouseenter' on 'marker-pins'
MarkerEnter(entryIndex, properties) ==
    /\ map.id # 0
    /\ map.interactions > 0
    /\ entryIndex \in 1..Len(map.features)
    /\ Becomes(Since(EnterListeners(Log(World, "marker.mouseenter", NoCtx),
                                    map.interactions,
                                    map.features[entryIndex].entryIndex, properties),
                     "show"))

\* The pointer leaves the markers: 'mouseleave' on 'marker-pins'
MarkerLeave ==
    /\ map.id # 0
    /\ map.interactions > 0
    /\ map.features # <<>>
    /\ popup.nextTimer + map.interactions - 1 <= MaxTimers
    /\ Becomes(Since(LeaveListeners(Log(World, "marker.mouseleave", NoCtx),
                                    map.interactions),
                     "hide"))

\* The pointer enters the popup's element
PopupEnter ==
    /\ popup.sharedPopup.onMap # 0
    /\ Becomes(Since(clearPopupHideTimeout(Log(World, "popup.mouseenter", NoCtx)), "enter"))

\* The pointer leaves the popup's element
PopupLeave ==
    /\ popup.sharedPopup.onMap # 0
    /\ popup.nextTimer <= MaxTimers
    /\ Becomes(Since(hidePopup(Log(World, "popup.mouseleave", NoCtx)), "hide"))

\* TickMs milliseconds pass
Tick ==
    /\ \E t \in popup.timers : t.remaining > 0
    /\ Becomes(Since([World EXCEPT !.popup.timers =
                            {[t EXCEPT !.remaining = Max2(0, @ - TickMs)] : t \in @}],
                     "tick"))

\* The window runs a timer that is due
HideTimeout ==
    \E t \in popup.timers :
        /\ t.remaining = 0
        /\ Becomes(hideCallback(Log([World EXCEPT !.popup.timers = @ \ {t}],
                                    "timeout", NoCtx)))

\* The host updates the dataset of a view that is waiting for nothing
QuietUpdate(cfg, ds, file, sameSerialized) ==
    /\ \A s \in Slots : tasks[s].pc = "idle"
    /\ DataUpdated(cfg, ds, file, sameSerialized)

InitPopup == InitWith({FALSE}, {NoTileSets})

NextPopup ==
    \/ \E cfg \in {UnsetConfig}, ds \in {DataC}, file \in {1}, same \in {TRUE} :
            QuietUpdate(cfg, ds, file, same)
    \/ \E s \in Slots, fetched \in {TRUE}, same \in {TRUE} : StyleFetched(s, fetched, same)
    \/ \E s \in Slots, ok \in {TRUE} : ImageLoaded(s, ok)
    \/ MapLoad
    \/ \E entryIndex \in 1..3, properties \in PropertyLists :
            MarkerEnter(entryIndex, properties)
    \/ MarkerLeave
    \/ PopupEnter
    \/ PopupLeave
    \/ Tick
    \/ HideTimeout
    \/ Unload

SpecPopup == InitPopup /\ [][NextPopup]_vars

(***************************************************************************)
(* Style resolution: getMapStyle applied to a light and a dark URL list,   *)
(* in either theme, with every outcome of the fetch.                       *)
(***************************************************************************)
StyleUrlToken == StyleUrlA \o <<"?", "access_token=", "pk">>
StyleUrlEmptyToken == StyleUrlA \o <<"?", "access_token=", "&", "v=1">>
TileUrlX == <<"https://x/", "{x}", ".png">>
UrlLists ==
    {<<>>, <<StyleUrlA>>, <<StyleUrlToken>>, <<StyleUrlEmptyToken>>, <<TileUrlB>>,
     <<TileUrlX>>, <<StyleUrlA, TileUrlB>>, <<TileUrlBDark, TileUrlV>>}

InitStyleUrls ==
    /\ InitState({FALSE}, {NoTileSets}, {FALSE})
    /\ input \in [mapTiles : UrlLists, mapTilesDark : UrlLists, dark : BOOLEAN,
                  outcome : FetchOutcomes]
    /\ output = NoOutput

\* styleManager.getMapStyle(mapTiles, mapTilesDark) with app.isDarkMode() = dark
GetMapStyle ==
    /\ output = NoOutput
    /\ output' = <<resolveMapStyle(StyleRequest(input.mapTiles, input.mapTilesDark,
                                                input.dark),
                                   input.outcome)>>
    /\ UNCHANGED <<config, data, activeFile, isDark, embedded, tileSets, map, orphans,
                   mapsCreated, mapConfig, pendingMapState, isFirstLoad,
                   lastConfigSnapshot, lastEvaluatedCenter, mapElHeight, markers, bounds,
                   loadedMarkerImages, keepsImages, tasks, calls, hist, popup, input>>

NextStyleUrls == GetMapStyle
SpecStyleUrls == InitStyleUrls /\ [][NextStyleUrls]_vars

(***************************************************************************)
(* updateMarkers on its own: the dataset is a list of up to MaxRecords     *)
(* records.  A record is a slot of data.data (possibly empty) with what    *)
(* entry.getValue(coordinatesProp) gives for it, and the two numbers the   *)
(* value was written from (first and second element, 0.00001 degree).      *)
(***************************************************************************)
MaxRecords == 3

RecordKinds ==
    {
     [null |-> FALSE, first |-> 3500000, second |-> 4800000,
      value |-> StringValue(<<"3", "5", ",", " ", "4", "8">>)],
     [null |-> FALSE, first |-> 3300000, second |-> -4400000,
      value |-> ListValue(<<NumberValue(<<"3", "3">>), NumberValue(<<"-", "4", "4">>)>>)],
     [null |-> FALSE, first |-> 0, second |-> 500000,
      value |-> ListValue(<<NumberValue(<<"0">>), NumberValue(<<"5">>)>>)],
     [null |-> FALSE, first |-> 0, second |-> 0,
      value |-> StringValue(<<"a", "b", "c">>)],
     [null |-> FALSE, first |-> 0, second |-> 0, value |-> ThrowsValue],
     [null |-> TRUE, first |-> 0, second |-> 0, value |-> NullValue]
    }

\* `if (!entry) continue`
IsEntry(record) == ~record.null

\* The try block of the loop: getValue, then coordinateFromValue; the catch
\* leaves coordinates null
ExtractCoordinates(record) ==
    IF record.value.kind = "throws" THEN NoCoordinates
    ELSE coordinateFromValue(record.value)

\* data.data as the loop of updateMarkers sees it: the entries, each with the
\* coordinates the try block gave
EntriesOf(records) ==
    LET entries == SelectSeq([i \in 1..Len(records) |-> records[i] @@ [id |-> i]], IsEntry)
    IN  [i \in 1..Len(entries) |->
            [id |-> entries[i].id, coordinates |-> ExtractCoordinates(entries[i]),
             icon |-> NoText, color |-> NoText]]

InitCollect ==
    /\ InitState({FALSE}, {NoTileSets}, {FALSE})
    /\ input \in UNION {[1..n -> RecordKinds] : n \in 0..MaxRecords}
    /\ output = NoOutput

\* updateMarkers with a map whose images are all loaded: this.markers,
\* this.bounds and the features given to the 'markers' source
CollectMarkers ==
    /\ output = NoOutput
    /\ output' =
        LET validMarkers == ValidMarkers(EntriesOf(input))
        IN  [markers |-> validMarkers,
             bounds |-> ExtendBounds(EmptyBounds, validMarkers),
             features |-> createGeoJSONFeatures(validMarkers)]
    /\ UNCHANGED <<input, config, data, activeFile, isDark, embedded, tileSets, map,
                   orphans, mapsCreated, mapConfig, pendingMapState, isFirstLoad,
                   lastConfigSnapshot, lastEvaluatedCenter, mapElHeight, markers,
                   bounds, loadedMarkerImages, keepsImages, tasks, calls, hist, popup>>

NextCollect == CollectMarkers
SpecCollect == InitCollect /\ [][NextCollect]_vars

(***************************************************************************)
(* The popup's content on its own: showPopup for one entry and one list of *)
(* declared properties, on a manager that has a map and no popup yet.      *)
(* The lists are the short ones over four properties and three that reach  *)
(* past the twentieth property.                                            *)
(***************************************************************************)
MaxDeclared == 3

Padding(n) == [i \in 1..n |-> MarkerIconProp]
DeclaredLists ==
    UNION {[1..n -> {CoordinatesProp, MarkerSvgProp, TitleProp, TagsProp}] :
                n \in 0..MaxDeclared}
        \cup {Padding(MaxPopupProperties - 1) \o <<TitleProp, TagsProp>>,
              Padding(MaxPopupProperties) \o <<TitleProp>>,
              Padding(MaxPopupProperties - 2) \o <<TagsProp, TitleProp>>}

InitPopupContent ==
    /\ InitState({FALSE}, {NoTileSets}, {FALSE})
    /\ input \in [entry : {Entry1, Entry2, Entry4, Entry5}, properties : DeclaredLists]
    /\ output = NoOutput

\* showPopup as the 'mouseenter' listener calls it; output is the shared
\* popup afterwards (null when the call was suppressed)
ShowPopup ==
    /\ output = NoOutput
    /\ output' =
        showPopup([World EXCEPT !.popup.map = 1], input.entry, input.entry.coordinates,
                  input.properties, Roles).popup.sharedPopup
    /\ UNCHANGED <<input, config, data, activeFile, isDark, embedded, tileSets, map,
                   orphans, mapsCreated, mapConfig, pendingMapState, isFirstLoad,
                   lastConfigSnapshot, lastEvaluatedCenter, mapElHeight, markers,
                   bounds, loadedMarkerImages, keepsImages, tasks, calls, hist, popup>>

NextPopupContent == ShowPopup
SpecPopupContent == InitPopupContent /\ [][NextPopupContent]_vars

\* Backgrounds: the view's own tile URLs come and go, the user picks a
\* background, the settings' tile sets are moved, edited and deleted
TileSetBLight == [TileSetB EXCEPT !.darkTiles = NoUrl]
TileSettings ==
    {TwoTileSets, <<TileSetB, TileSetA>>, <<TileSetA>>, <<TileSetBLight, TileSetA>>, NoTileSets}
TileConfigs == {UnsetConfig, [UnsetConfig EXCEPT !.mapTiles = <<TileUrlV>>]}

InitTiles == InitWith({FALSE}, {TwoTileSets})

NextTiles ==
    \/ \E cfg \in TileConfigs, ds \in {NoData}, file \in {1}, same \in {TRUE} :
            DataUpdated(cfg, ds, file, same)
    \/ \E s \in Slots, fetched \in {TRUE}, same \in {TRUE} : StyleFetched(s, fetched, same)
    \/ \E s \in Slots, fetched \in {TRUE} : ThemeStyleFetched(s, fetched)
    \/ \E tileSetId \in {TileSetA.id, TileSetB.id} : SwitchTileSet(tileSetId)
    \/ \E newTileSets \in TileSettings : ChangeSettings(newTileSets)

SpecTiles == InitTiles /\ [][NextTiles]_vars

(***************************************************************************)
(* Restored states: the host restores a state with both numeric fields,    *)
(* with none ({}, as getEphemeralState returns it without a map), or no    *)
(* state at all, around the first dataset updates and the 'load' event.    *)
(***************************************************************************)
RestoreStates == {FullState, EmptyState, FalsyState}
RestoreConfigs == {UnsetConfig, [UnsetConfig EXCEPT !.center = "literal", !.defaultZoom = 6]}

InitRestore == InitWith({FALSE}, {NoTileSets})

NextRestore ==
    \/ \E cfg \in RestoreConfigs, ds \in {DataB}, file \in {1}, same \in {TRUE} :
            DataUpdated(cfg, ds, file, same)
    \/ \E s \in Slots, fetched \in {TRUE}, same \in {TRUE} : StyleFetched(s, fetched, same)
    \/ \E s \in Slots, ok \in {TRUE} : ImageLoaded(s, ok)
    \/ MapLoad
    \/ OrphanLoad
    \/ \E state \in RestoreStates : SetEphemeralState(state)

SpecRestore == InitRestore /\ [][NextRestore]_vars

(***************************************************************************)
(* Camera policy: restored state against configuration                     *)
(***************************************************************************)
CallsOf(op) == {i \in DOMAIN calls : calls[i].op = op}
Called(op) == \E i \in 1..Len(calls) : calls[i].op = op
NoTaskInFlight == \A s \in Slots : tasks[s].pc = "idle"

\* One camera state with numeric fields was restored before any map existed,
\* the one onDataUpdated there was has completed with data present, the user
\* has not moved the map, and the restored zoom is one the map allows
RestoredAndLoaded ==
    /\ hist.restores = 1
    /\ hist.restoredNoMap
    /\ ~hist.restored.falsy /\ hist.restored.hasCenter /\ hist.restored.hasZoom
    /\ hist.updates = 1
    /\ hist.moves = 0
    /\ NoTaskInFlight
    /\ data.present
    /\ map.id # 0
    /\ hist.restored.zoom \in map.minZoom..map.maxZoom

\* C1: a camera state restored on a view without a map is where the camera is
\* once the first onDataUpdated has completed, and stays there whether or not
\* the map's load handler has run, whatever center and zoom are configured
C1_RestoredCameraWins ==
    RestoredAndLoaded =>
        /\ map.center = hist.restored.center
        /\ map.zoom = hist.restored.zoom

C1_Witness ==
    /\ RestoredAndLoaded
    /\ ~map.loadPending
    /\ hasConfiguredCenter(World)
    /\ config.defaultZoom # NoNum
    /\ bounds.state = "box"
    /\ map.center = hist.restored.center

\* C2: once an onDataUpdated has got past updateMarkers no restore is pending
\* any more, and an applyConfigToMap that runs with no restore pending and a
\* changed defaultZoom (center) field leaves the camera at the configured
\* zoom (center)
C2_RestoreConsumedOnce ==
    /\ CallsOf("onDataUpdated.markersDone") # {} => pendingMapState.null
    /\ \A i \in CallsOf("applyConfigToMap") :
        LET c == calls[i].ctx
        IN  ~c.restore =>
                /\ (zoomConfigChanged(c.old, c.new) /\ c.defaultZoom # NoNum)
                        => map.zoom = mapConfig.defaultZoom
                /\ (centerConfigChanged(c.old, c.new) /\ c.target # <<0, 0>>)
                        => ~centerActuallyChanged(map.center, c.target)

C2_Witness ==
    /\ hist.restores = 1
    /\ hist.updates = 2
    /\ pendingMapState.null
    /\ \E i \in CallsOf("applyConfigToMap") :
        LET c == calls[i].ctx
        IN  /\ ~c.restore /\ ~c.firstLoad
            /\ zoomConfigChanged(c.old, c.new) /\ c.defaultZoom # NoNum
            /\ centerConfigChanged(c.old, c.new) /\ c.target # <<0, 0>>
    /\ map.zoom = 6
    /\ map.center # hist.restored.center

UnchangedUpdate ==
    /\ hist'.updates = hist.updates + 1
    /\ map.id # 0
    /\ ~isFirstLoad
    /\ getConfigSnapshot(config') = lastConfigSnapshot
    /\ mapConfig'.center = mapConfig.center
    /\ pendingMapState.null

\* C4: an onDataUpdated after the first load with an unchanged snapshot and an
\* unchanged evaluated center, and no restore pending, leaves the camera's
\* center and zoom as they are; so does the completion of an image load when
\* no restore is pending
C4_UnchangedUpdateKeepsCamera ==
    [][(\/ UnchangedUpdate
        \/ (pendingMapState.null /\ CallsOf("imageLoaded")' # {} /\ map.id # 0))
            => (map'.center = map.center /\ map'.zoom = map.zoom)]_vars

\* The user moved the map while the first update was loading its images; a
\* second update with the same literal center found the camera where the
\* user had left it and moved it to the configured center
C4_PanUndone ==
    /\ hist.moves = 1
    /\ hist.updates = 2
    /\ Called("onDataUpdated")
    /\ config.center = "literal"
    /\ getConfigSnapshot(config) = lastConfigSnapshot
    /\ ~isFirstLoad
    /\ pendingMapState.null
    /\ \E i \in CallsOf("updateCenter.setCenter") : calls[i].ctx.center \in UserCenters
    /\ map.center \notin UserCenters

\* The same with the center the code compares with, the one recorded when an
\* update last ran to its end
UnchangedRecorded ==
    /\ hist'.updates = hist.updates + 1
    /\ map.id # 0
    /\ ~isFirstLoad
    /\ getConfigSnapshot(config') = lastConfigSnapshot
    /\ mapConfig'.center = lastEvaluatedCenter
    /\ pendingMapState.null

C4_RecordedCenterKeepsCamera ==
    [][(\/ UnchangedRecorded
        \/ (pendingMapState.null /\ CallsOf("imageLoaded")' # {} /\ map.id # 0))
            => (map'.center = map.center /\ map'.zoom = map.zoom)]_vars

C4_Witness ==
    /\ hist.moves = 1
    /\ hist.updates = 2
    /\ CallsOf("onDataUpdated") # {}
    /\ ~isFirstLoad
    /\ getConfigSnapshot(config) = lastConfigSnapshot
    /\ mapConfig.center = lastEvaluatedCenter
    /\ pendingMapState.null
    /\ hasConfiguredCenter(World)
    /\ config.defaultZoom # NoNum
    /\ map.center \in UserCenters
    /\ map.zoom \in UserZooms

\* C5: during onDataUpdated the configured default zoom is set only if a
\* defaultZoom is configured, it is the first load or the defaultZoom field of
\* the snapshot changed, and no restore is pending
C5_ZoomOnlyOnFieldChange ==
    \A i \in CallsOf("updateZoom.setZoom") :
        LET c == calls[i].ctx
        IN  /\ c.defaultZoom # NoNum
            /\ c.firstLoad \/ zoomConfigChanged(c.old, c.new)
            /\ ~c.restore

C5_Witness ==
    \E i \in CallsOf("updateZoom.setZoom") :
        LET c == calls[i].ctx
        IN  /\ ~c.firstLoad
            /\ zoomConfigChanged(c.old, c.new)
            /\ hist.moves = 1
            /\ map.zoom = mapConfig.defaultZoom

(***************************************************************************)
(* Style and height                                                        *)
(***************************************************************************)

\* C6: applyConfigToMap resolves a style, and sets one, only if it found
\* isFirstLoad set or the mapTiles/mapTilesDark fields changed; and a step in
\* which it sets a style clears the marker image cache right after, so that
\* the cache is empty when the step ends
C6_StyleOnlyOnTilesChange ==
    /\ \A i \in CallsOf("applyConfigToMap.getMapStyle") \cup CallsOf("applyConfigToMap.setStyle") :
        LET c == calls[i].ctx
        IN  c.firstLoad \/ tilesChanged(c.old, c.new)
    /\ \A i \in CallsOf("applyConfigToMap.setStyle") :
        /\ i + 1 \in CallsOf("clearLoadedMarkerImages")
        /\ loadedMarkerImages = {}

C6_Witness ==
    \E i \in CallsOf("applyConfigToMap.setStyle") :
        LET c == calls[i].ctx
        IN  /\ ~c.firstLoad
            /\ tilesChanged(c.old, c.new)
            /\ map.images = EmptyBag
            /\ loadedMarkerImages = {}
            /\ map.style.kind = "raster"

\* applyConfigToMap is called after the first load with a snapshot in which
\* only mapHeight differs from the previous one
HeightOnlyChange(c) ==
    /\ ~c.firstLoad
    /\ ~c.old.null
    /\ heightChanged(c.old, c.new)
    /\ c.new = [c.old EXCEPT !.mapHeight = c.new.mapHeight]

\* C7: a step in which applyConfigToMap runs after the first load with only
\* mapHeight changed resolves no style, sets none and does not clear the image
\* cache; and the height is set and the map resized only if isFirstLoad is set
\* or the mapHeight field changed
C7_HeightOnlyChange ==
    /\ \A i \in CallsOf("applyConfigToMap") :
        HeightOnlyChange(calls[i].ctx) =>
            /\ CallsOf("applyConfigToMap.getMapStyle") = {}
            /\ CallsOf("applyConfigToMap.setStyle") = {}
            /\ CallsOf("clearLoadedMarkerImages") = {}
    /\ \A i \in CallsOf("applyConfigToMap.resize") :
        LET c == calls[i].ctx
        IN  c.firstLoad \/ heightChanged(c.old, c.new)

C7_Witness ==
    /\ \E i \in CallsOf("applyConfigToMap") : HeightOnlyChange(calls[i].ctx)
    /\ CallsOf("applyConfigToMap.resize") # {}
    /\ embedded
    /\ mapElHeight = 300
    /\ loadedMarkerImages # {}

(***************************************************************************)
(* Markers                                                                 *)
(***************************************************************************)

\* C8 as stated: when dataset updates have overlapped and every one of them
\* has completed, the 'markers' source holds the features of the current
\* dataset, which are those of the marker list the MarkerManager holds
C8_StaleCompletionsHarmless ==
    (/\ hist.overlapped
     /\ NoTaskInFlight
     /\ map.id # 0
     /\ SourceExists(map)
     /\ data.present)
        => /\ map.features = createGeoJSONFeatures(ValidMarkers(data.data))
           /\ map.features = createGeoJSONFeatures(markers)

SetStyleCalls ==
    CallsOf("applyConfigToMap.setStyle") \cup CallsOf("updateMapStyle.setStyle")

\* C9: a map has at most one 'markers' source and one 'marker-pins' layer;
\* and a step on a map that has them, with no setStyle in it, adds neither
\* again, while a step on a map that lacks them adds them at most once
C9_SourceAndLayerOnce ==
    /\ [](map.sources <= 1 /\ map.layers <= 1)
    /\ [][(map.id # 0 /\ map'.id = map.id /\ SetStyleCalls' = {}) =>
            /\ SourceExists(map) =>
                /\ CallsOf("addSource")' = {} /\ CallsOf("addLayer")' = {}
                /\ map'.sources = 1 /\ map'.layers = 1
            /\ Cardinality(CallsOf("addSource")') <= 1
            /\ Cardinality(CallsOf("addLayer")') <= 1]_vars

C9_Witness ==
    /\ CallsOf("setData") # {}
    /\ CallsOf("addSource") = {}
    /\ SetStyleCalls = {}
    /\ hist.overlapped
    /\ hist.updates = 2
    /\ map.sources = 1
    /\ map.layers = 1
    /\ map.features = createGeoJSONFeatures(ValidMarkers(DataA.data))

\* C10 as stated: the marker interaction handlers are attached once to a map
C10_InteractionsOnce == map.id # 0 => map.interactions <= 1

(***************************************************************************)
(* Marker images                                                           *)
(***************************************************************************)
NoDuplicates(seq) == \A i, j \in DOMAIN seq : seq[i] = seq[j] => i = j
Range(seq) == {seq[i] : i \in DOMAIN seq}
KeysOf(validMarkers) == {ImageKeyOf(validMarkers[i].entry) : i \in DOMAIN validMarkers}

\* Slot s starts a batch of loadMarkerImages in this step
BatchStarts(s) ==
    /\ tasks'[s].pc = "loadMarkerImages"
    /\ tasks[s].pc # "loadMarkerImages"

\* C11: a batch of loadMarkerImages holds each key once, a batch that starts
\* holds exactly the keys of its markers that the cache lacks, and the
\* engine's registry never holds two images under one key
C11_OneImagePerKey ==
    /\ [](/\ \A s \in Slots : NoDuplicates(tasks[s].toLoad)
          /\ \A k \in BagToSet(map.images) : CopiesIn(k, map.images) = 1)
    /\ [][\A s \in Slots : BatchStarts(s) =>
            Range(tasks'[s].toLoad) =
                KeysOf(tasks'[s].validMarkers) \ loadedMarkerImages']_vars

C11_Witness ==
    /\ data = DataC
    /\ hist.overlapped
    /\ NoTaskInFlight
    /\ Len(markers) = 3
    /\ BagToSet(map.images) = KeysOf(markers)
    /\ Cardinality(BagToSet(map.images)) = 2
    /\ CallsOf("addImage") # {}

(***************************************************************************)
(* Image keys                                                              *)
(***************************************************************************)
IconAndColor(marker) == <<getCustomIcon(marker.entry), getCustomColor(marker.entry)>>

\* C12: two markers without a custom SVG whose (icon, color) pairs differ
\* are given two distinct image keys
C12_DistinctPairsDistinctKeys ==
    output # NoOutput =>
        \A i, j \in DOMAIN input :
            IconAndColor(input[i]) # IconAndColor(input[j])
                => output[i].imageKey # output[j].imageKey

\* What does hold: markers of one icon whose colors have different letters
\* and digits, in order, are given distinct keys
C12_DistinctColorKeysDistinctKeys ==
    output # NoOutput =>
        \A i, j \in DOMAIN input :
            /\ getCustomIcon(input[i].entry) = getCustomIcon(input[j].entry)
            /\ getCustomColor(input[i].entry) # NoText
            /\ getCustomColor(input[j].entry) # NoText
            /\ ColorKey(getCustomColor(input[i].entry))
                   # ColorKey(getCustomColor(input[j].entry))
            => output[i].imageKey # output[j].imageKey

\* Two colors that CSS tells apart, one icon, one key
C12_Collision ==
    /\ output # NoOutput
    /\ getCustomIcon(input[1].entry) = getCustomIcon(input[2].entry)
    /\ getCustomColor(input[1].entry)
           = <<"r", "g", "b", "(", "1", ",", "2", "3", ",", "4", ")">>
    /\ getCustomColor(input[2].entry)
           = <<"r", "g", "b", "(", "1", "2", ",", "3", ",", "4", ")">>
    /\ output[1].imageKey = output[2].imageKey

(***************************************************************************)
(* Marker images over a style reload                                       *)
(***************************************************************************)
Registered(keys) == keys \subseteq BagToSet(map.images)
FeatureKeys == {map.features[i].imageKey : i \in DOMAIN map.features}

\* The step set a style on the map
StyleReloaded == CallsOf("updateMapStyle.setStyle") # {}

\* The step ran the 'styledata' listener of updateMapStyle
ListenerRan == CallsOf("styledata") # {}

\* The markers are shown, each with a registered image
MarkersShown ==
    /\ Len(map.features) = Len(markers)
    /\ Registered(FeatureKeys)
    /\ Registered(KeysOf(markers))

\* C13: after a style was set on the map, the markers come to be shown, each
\* with a registered image (unless the creation of an image fails)
C13_EventuallyRegistered ==
    StyleReloaded ~> (MarkersShown \/ CallsOf("console.warn") # {})

\* Nothing is waited for, and a feature on the map names an image that the
\* cache holds and the registry does not: no later update creates it
C13_Unregistered ==
    /\ NoTaskInFlight
    /\ ~map.styledata
    /\ hist.events > 0
    /\ \E k \in FeatureKeys : k \in loadedMarkerImages /\ ~EngineHasImage(map, k)

\* What does hold: the step that sets a style leaves the image cache empty
C13_CacheEmptyAfterReload == StyleReloaded => loadedMarkerImages = {}

\* What does hold: as long as the view has made one map only, the markers do
\* come to be shown with registered images
C13_RegisteredOnFirstMap ==
    StyleReloaded ~> (MarkersShown \/ CallsOf("console.warn") # {} \/ mapsCreated > 1)

\* What does not: that the updateMarkers of the 'styledata' listener queues
\* every key of the current markers.  A loadMarkerImages that was waiting
\* over the setStyle caches its keys after the cache was emptied.
C13_NextUpdateLoadsEveryKey ==
    [][\A s \in Slots : (ListenerRan' /\ BatchStarts(s)) =>
            Range(tasks'[s].toLoad) = KeysOf(markers')]_vars

(***************************************************************************)
(* Marker images: a creation that fails                                    *)
(***************************************************************************)
\* The step is the rejection of the image that slot s waits for
CreationFails(s) ==
    /\ tasks[s].pc = "loadMarkerImages"
    /\ tasks'[s] # tasks[s]
    /\ CallsOf("console.warn")' # {}

\* C14: when the creation of one image is rejected, the key is not cached
\* and not registered, the rest of the batch is still waited for in order,
\* after the last key the features of all the markers are published, and a
\* batch that starts later queues every key the cache lacks, the failed one
\* among them
C14_FailureIsolated ==
    /\ [][\A s \in Slots : CreationFails(s) =>
            /\ loadedMarkerImages' = loadedMarkerImages
            /\ map'.images = map.images
            /\ IF Tail(tasks[s].toLoad) # <<>>
                  THEN /\ tasks'[s].pc = "loadMarkerImages"
                       /\ tasks'[s].toLoad = Tail(tasks[s].toLoad)
                       /\ tasks'[s].validMarkers = tasks[s].validMarkers
                  ELSE /\ tasks'[s].pc = "idle"
                       /\ map.id # 0 =>
                            map'.features = createGeoJSONFeatures(tasks[s].validMarkers)]_vars
    /\ [][\A s \in Slots : BatchStarts(s) =>
            \A k \in KeysOf(tasks'[s].validMarkers) :
                k \notin loadedMarkerImages' => k \in Range(tasks'[s].toLoad)]_vars

\* The creation of the last image of a batch was rejected, the step went on
\* to publish the features, and the second update is waiting for the image
\* of a key that is still not registered
C14_Witness ==
    /\ hist.updates = 2
    /\ hist.events = 0
    /\ mapsCreated = 1
    /\ \E s \in Slots :
        /\ tasks[s].pc = "loadMarkerImages"
        /\ ~EngineHasImage(map, Head(tasks[s].toLoad))
        /\ Head(tasks[s].toLoad) \in FeatureKeys
    /\ \A s \in Slots : tasks[s].pc \in {"idle", "loadMarkerImages"}
    /\ Len(map.features) = 3

(***************************************************************************)
(* SVG sizing                                                              *)
(***************************************************************************)
\* A length in pixels: digits, or digits and "px"
PixelDigits(text) == IF EndsWithPx(text) THEN SubSeq(text, 1, Len(text) - 2) ELSE text
IsPixels(text) == IsDigits(PixelDigits(text))
PixelsOf(text) == Whole(DigitsValue(PixelDigits(text)))
WellFormed(doc) == ~doc.parsererror /\ doc.tagName = "svg"
HasViewBox(doc) ==
    /\ doc.viewBox # NoText
    /\ Len(ViewBoxParts(doc.viewBox)) = 4
    /\ \A i \in 1..4 : ~ViewBoxParts(doc.viewBox)[i].nan

\* The quotient is the number v
IsValue(q, v) == q.d # 0 /\ q.n = v * q.d
AtMost(q, v) == q.d # 0 /\ (IF q.d > 0 THEN q.n <= v * q.d ELSE q.n >= v * q.d)
LongerEdgeIs(image, v) ==
    \/ IsValue(image.width, v) /\ AtMost(image.height, v)
    \/ IsValue(image.height, v) /\ AtMost(image.width, v)
Square(image) ==
    /\ image.width.d # 0
    /\ image.height.d # 0
    /\ image.width.n * image.height.d = image.height.n * image.width.d

SizingAsStated(doc, image, properties) ==
    /\ (WellFormed(doc) /\ IsPixels(doc.width) /\ IsPixels(doc.height)) =>
            /\ ~image.fallback
            /\ image.fixedSize
            /\ image.width = PixelsOf(doc.width)
            /\ image.height = PixelsOf(doc.height)
    /\ (WellFormed(doc) /\ ~IsPixels(doc.width) /\ ~IsPixels(doc.height) /\ HasViewBox(doc)) =>
            /\ ~image.fallback
            /\ ~image.fixedSize
            /\ LongerEdgeIs(image, SVG_MARKER_REFERENCE_SIZE)
    /\ (WellFormed(doc) /\ IsPixels(doc.width) # IsPixels(doc.height) /\ doc.viewBox = NoText) =>
            /\ ~image.fallback
            /\ ~image.fixedSize
            /\ Square(image)
    /\ (~WellFormed(doc) \/ (~IsPixels(doc.width) /\ ~IsPixels(doc.height) /\ ~HasViewBox(doc))) =>
            /\ image.fallback
            /\ ~image.fixedSize
            /\ image.svgError # NoError
            /\ properties.svgError = image.svgError
            /\ ~properties.fixedSize

\* The document has an edge to scale: it does not come to 0 by 0
HasExtent(doc) ==
    /\ IsPixels(doc.width) => PixelsOf(doc.width).n > 0
    /\ IsPixels(doc.height) => PixelsOf(doc.height).n > 0
    /\ HasViewBox(doc) => Max2(ViewBoxParts(doc.viewBox)[3].value,
                               ViewBoxParts(doc.viewBox)[4].value) > 0

\* C15: width and height in pixels give a fixed-size image of those
\* dimensions; a viewBox alone gives a scalable image whose longer edge is
\* 48; one pixel dimension and no viewBox give a scalable square image;
\* nothing usable, a parse error or another root element give the fallback
\* glyph, scalable, with an error text that the feature carries
C15_SvgSizing ==
    output # NoOutput => SizingAsStated(input, output.image, output.properties)

\* What does hold: the same for documents that do not come to 0 by 0
C15_SvgSizingWithExtent ==
    (output # NoOutput /\ HasExtent(input)) =>
        SizingAsStated(input, output.image, output.properties)

\* A viewBox of no extent alone: no fallback and no error, and a width that
\* is 0 times 48 / 0
C15_NoSize ==
    /\ output # NoOutput
    /\ WellFormed(input)
    /\ input.width = NoText
    /\ input.height = NoText
    /\ HasViewBox(input)
    /\ ~output.image.fallback
    /\ output.image.svgError = NoError
    /\ output.image.width.d = 0

(***************************************************************************)
(* Zoom configuration                                                      *)
(***************************************************************************)
\* C16: after loadConfig, whatever the three zoom options are,
\* 0 <= minZoom <= defaultZoom <= maxZoom <= 24
C16_ZoomOrdered ==
    output # NoOutput =>
        /\ ZoomFloor <= output.minZoom
        /\ output.minZoom <= output.defaultZoom
        /\ output.defaultZoom <= output.maxZoom
        /\ output.maxZoom <= ZoomCeiling

\* What does hold: minZoom and maxZoom are each within 0..24, and the three
\* are in order when minZoom <= maxZoom was configured so and defaultZoom is
\* set
C16_ZoomOrderedWhenSet ==
    output # NoOutput =>
        /\ output.minZoom \in ZoomFloor..ZoomCeiling
        /\ output.maxZoom \in ZoomFloor..ZoomCeiling
        /\ (output.minZoom <= output.maxZoom /\ input.defaultZoom # NoNum) =>
                /\ output.minZoom <= output.defaultZoom
                /\ output.defaultZoom <= output.maxZoom

\* minZoom 5, maxZoom and defaultZoom unset: the default zoom 4 is taken as it
\* is, below minZoom
C16_DefaultBelowMin ==
    /\ output # NoOutput
    /\ input.minZoom = 5
    /\ input.maxZoom = NoNum
    /\ input.defaultZoom = NoNum
    /\ output.defaultZoom = DEFAULT_MAP_ZOOM
    /\ output.defaultZoom < output.minZoom

(***************************************************************************)
(* Coordinates                                                             *)
(***************************************************************************)
\* What a component stands for in an encoding: in a list of numbers, a
\* component that no number value can have is not a number
Stands(component, encoding) ==
    ~component.nan /\ (encoding = "listOfNumbers" => component.numeral)
LatInRange(v) == v >= 0 - MaxLat /\ v <= MaxLat
LngInRange(v) == v >= 0 - MaxLng /\ v <= MaxLng
Done == output # NoOutput

\* C17: coordinateFromValue gives null when a component does not parse, when
\* the latitude is outside [-90, 90] or the longitude outside [-180, 180],
\* and when the value has fewer than two components; a pair it gives is in
\* range
C17_RejectsInvalid ==
    Done => \A e \in EncodingNames :
        /\ (\/ input.count < 2
            \/ ~Stands(input.first, e)
            \/ ~Stands(input.second, e)
            \/ ~LatInRange(input.first.value)
            \/ ~LngInRange(input.second.value)) => output.resolved[e] = NoCoordinates
        /\ output.resolved[e] # NoCoordinates =>
                /\ LatInRange(output.resolved[e][1])
                /\ LngInRange(output.resolved[e][2])

\* An out-of-range longitude next to a good latitude is turned down, and so
\* is a value of one component
C17_Witness ==
    /\ Done
    /\ \/ /\ input.count = 2
          /\ input.first.value = 3450000
          /\ input.second.value = 18050000
       \/ /\ input.count = 1
          /\ input.first.value = 3450000
    /\ \A e \in EncodingNames : output.resolved[e] = NoCoordinates

\* C18: coordinateFromValue gives null when the latitude or the longitude
\* parses to exactly 0, in the list and in the string encodings; the entry
\* then gets no marker, and as a configured center the value gives the
\* default center, which counts as none configured
C18_ZeroIsNull ==
    (/\ Done
     /\ input.count >= 2
     /\ \/ ~input.first.nan /\ input.first.value = 0
        \/ ~input.second.nan /\ input.second.value = 0) =>
        \A e \in EncodingNames :
            /\ output.resolved[e] = NoCoordinates
            /\ output.features[e] = <<>>
            /\ output.center[e] = DEFAULT_MAP_CENTER
            /\ ~CenterIsConfigured(output.center[e])

\* (0, 5) and (5, 0), both otherwise fine, were resolved to null
C18_Witness ==
    /\ Done
    /\ input.count = 2
    /\ \/ input.first.text = <<"0">> /\ input.second.text = <<"5">>
       \/ input.first.text = <<"5">> /\ input.second.text = <<"0">>
    /\ \A e \in EncodingNames : output.resolved[e] = NoCoordinates

C20_LongitudeFirst ==
    Done => \A e \in EncodingNames : \A i \in DOMAIN output.features[e] :
        output.features[e][i].coordinates = <<input.first.value, input.second.value>>

\* What the code does: the first component is the latitude, the second the
\* longitude
C20_LatitudeFirst ==
    Done => \A e \in EncodingNames : \A i \in DOMAIN output.features[e] :
        output.features[e][i].coordinates = <<input.second.value, input.first.value>>

\* "34.5, -118.25" gave a marker at longitude -118.25, latitude 34.5
C20_Transposed ==
    /\ Done
    /\ input.first.text = <<"3", "4", ".", "5">>
    /\ input.second.text = <<"-", "1", "1", "8", ".", "2", "5">>
    /\ \A e \in EncodingNames :
        /\ Len(output.features[e]) = 1
        /\ output.features[e][1].coordinates = <<-11825000, 3450000>>

(***************************************************************************)
(* The popup                                                               *)
(***************************************************************************)
\* A value with nothing to display: none, an empty text, or a list of such
RECURSIVE IsEmptyValue(_)
IsEmptyValue(value) ==
    \/ value.kind \in {"null", "throws"}
    \/ value.kind = "string" /\ value.text = <<>>
    \/ value.kind = "list" /\ \A i \in 1..Len(value.items) : IsEmptyValue(value.items[i])

RoleProperties == {CoordinatesProp, MarkerIconProp, MarkerColorProp, MarkerSvgProp}

NothingToDisplay(entry, properties) ==
    \A i \in 1..Len(properties) :
        properties[i] \notin RoleProperties => IsEmptyValue(getValue(entry, properties[i]))

\* The calls of showPopup in the last step for a record with nothing to display
EmptyShows ==
    {i \in 1..Len(calls) : /\ calls[i].op = "showPopup"
                           /\ NothingToDisplay(calls[i].ctx.entry, calls[i].ctx.properties)}

C22_HideAfterGrace ==
    [][/\ (Called("Popup.remove") /\ ~Called("destroyMap"))'
            => /\ Called("timeout")'
               /\ popup.grace.hidden
               /\ popup.grace.ticks >= HideDelay
               /\ ~popup.grace.shown
               /\ ~popup.grace.entered
       /\ Called("popup.mouseenter")'
            => /\ popup'.timers = {}
               /\ popup'.sharedPopup = popup.sharedPopup
               /\ popup'.sharedPopup.onMap # 0
       /\ Called("popup.mouseleave")'
            => /\ popup'.timers = {[id |-> popup'.popupHideTimeout, remaining |-> HideDelay]}
               /\ popup'.sharedPopup = popup.sharedPopup]_vars

\* The timer has removed the popup after the pointer had entered the popup
\* and left it again
C22_Witness ==
    /\ Called("timeout")
    /\ Called("Popup.remove")
    /\ popup.sharedPopup.onMap = 0
    /\ popup.nextTimer >= 3
    /\ popup.grace.ticks >= HideDelay

\* C23: the window holds at most one hide timer, and it is the one the popup
\* manager remembers; no timer is set once destroyMap has run, so that no
\* callback runs after a teardown; and a callback only runs as the timer the
\* popup manager remembered, never as one a later hidePopup replaced.
C23_OneHideTimer ==
    /\ Cardinality(popup.timers) <= 1
    /\ \A t \in popup.timers : t.id = popup.popupHideTimeout
    /\ popup.popupHideTimeout # 0 => \E t \in popup.timers : t.id = popup.popupHideTimeout
    /\ Called("destroyMap") => popup.timers = {} /\ popup.popupHideTimeout = 0
    /\ map.id = 0 => popup.timers = {}

\* A second hidePopup has replaced the timer of the first, and a teardown has
\* cleared a pending timer
C23_Witness ==
    /\ Called("destroyMap")
    /\ popup.nextTimer >= 3
    /\ popup.grace.hidden
    /\ popup.grace.ticks < HideDelay
    /\ popup.timers = {}

(***************************************************************************)
(* Ownership of the map                                                    *)
(***************************************************************************)
\* C24: as long as the view has not been torn down, at most one map has been
\* constructed, however many onDataUpdated calls were dispatched while the
\* first initializeMap was waiting for its style.
C24_OneMapPerView ==
    hist.events = 0 => mapsCreated <= 1

\* Two maps have been constructed for a view that was never torn down, each
\* by an onDataUpdated that found no map before its style fetch
C24_TwoMaps ==
    /\ hist.events = 0
    /\ hist.updates = 2
    /\ mapsCreated = 2
    /\ map.id = 2

\* The calls of the last step that construct a map or act on one
MapCalls ==
    {i \in 1..Len(calls) :
        calls[i].op \in {"new Map", "updateMapStyle.setStyle", "applyConfigToMap.setStyle",
                         "addSource", "addLayer", "setData", "addImage", "removeImage"}}

\* C25: from a teardown until the next onDataUpdated is dispatched the view
\* holds no map, and no step constructs a map or acts on one; this includes
\* the initializeMap and updateMapStyle that were waiting for a style when the
\* view was torn down.
C25_TeardownReleasesMap ==
    hist.tornDown => map.id = 0 /\ MapCalls = {}

\* After a teardown, and with no onDataUpdated since, the initializeMap that
\* was waiting for its style has constructed a map
C25_MapAfterTeardown ==
    /\ hist.tornDown
    /\ map.id # 0
    /\ Called("new Map")

\* What does hold: a teardown leaves the view without a map at once, and an
\* updateMapStyle that was waiting for its style then fails on the missing map
\* without constructing one
C25_ReleasedAtTeardown ==
    /\ Called("destroyMap") => map.id = 0
    /\ (hist.tornDown /\ Called("TypeError")) => map.id = 0 /\ MapCalls = {}

(***************************************************************************)
(* Style reloads                                                           *)
(***************************************************************************)
\* The style getMapStyle resolves for the tiles and the theme of this state
CurrentStyle ==
    getMapStyle(StyleRequest(mapConfig.mapTiles, mapConfig.mapTilesDark, isDark), TRUE)

UpdatingStyle == \E s \in Slots : tasks[s].pc = "updateMapStyle.getMapStyle"

\* C26: when the theme has been toggled while an earlier updateMapStyle was
\* fetching and no updateMapStyle is fetching any more, the map has the style
\* resolved for the current theme, whatever the order the fetches completed in.
C26_LatestThemeWins ==
    (hist.themeOverlap /\ ~UpdatingStyle /\ map.id # 0) => map.style = CurrentStyle

\* Both fetches have completed, the later toggle's first, and the map shows
\* the style of the theme that was left
C26_StaleThemeStyle ==
    /\ hist.themeOverlap
    /\ ~UpdatingStyle
    /\ map.id # 0
    /\ Called("updateMapStyle.setStyle")
    /\ map.style.url = (IF isDark THEN DefaultLightUrl ELSE DefaultDarkUrl)

\* Nothing is under way: no task waits, and no event of a map is pending
Quiescent ==
    /\ \A s \in Slots : tasks[s].pc = "idle"
    /\ ~map.styledata
    /\ ~map.loadPending
    /\ orphans = {}

MarkersPresent ==
    /\ SourceExists(map)
    /\ map.layers > 0
    /\ map.features = createGeoJSONFeatures(ValidMarkers(data.data))

\* C27: when a style has been set on the map and nothing is under way any
\* more, the markers have been rebuilt after that style's 'styledata' event:
\* the 'markers' source and the 'marker-pins' layer exist with the features of
\* the current dataset, published after the style had finished loading.
C27_RebuiltAfterStyleLoad ==
    (Quiescent /\ map.id # 0 /\ data.present /\ map.rebuilt # "unset")
        => MarkersPresent /\ map.rebuilt = "yes"

\* applyConfigToMap has set a style and the markers were published by the
\* updateMarkers that follows it in onDataUpdated, before the 'styledata'
\* event of that style, and by nothing after it
C27_RebuiltEarly ==
    /\ Quiescent
    /\ map.id # 0
    /\ data.present
    /\ MarkersPresent
    /\ map.rebuilt = "early"

\* What does hold: once a style has been set and nothing is under way, the
\* source and the layer exist with the current features
C27_MarkersPresentAtRest ==
    (Quiescent /\ map.id # 0 /\ data.present /\ map.rebuilt # "unset") => MarkersPresent

(***************************************************************************)
(* Style resolution                                                        *)
(***************************************************************************)
Resolved == output # NoOutput
Style == output[1]

\* The list the claim selects, and what it says of a URL
SelectedList ==
    IF input.dark /\ input.mapTilesDark # <<>> THEN input.mapTilesDark ELSE input.mapTiles
HasPlaceholder(url) ==
    \/ \E i \in 1..Len(url) : url[i] = "{z}"
    \/ \E i \in 1..Len(url) : url[i] = "{x}"
    \/ \E i \in 1..Len(url) : url[i] = "{y}"
IsDocumentOf(style, url) == style.kind \in {"json", "url"} /\ style.url = url

\* C28: getMapStyle selects the dark list only in the dark theme and when the
\* dark list is not empty, else the light list.  An empty selected list gives
\* the default style URL of the theme; a single URL with none of {z}, {x},
\* {y} is a style-document URL; anything else gives a raster style with, for
\* the URL at index i (from 0, in order), the source custom-tiles-i with that
\* URL and the layer custom-layer-i on that source.
C28_StyleByUrlList ==
    Resolved =>
        CASE SelectedList = <<>> ->
                IsDocumentOf(Style, IF input.dark THEN DefaultDarkUrl ELSE DefaultLightUrl)
          [] Len(SelectedList) = 1 /\ ~HasPlaceholder(SelectedList[1]) ->
                IsDocumentOf(Style, SelectedList[1])
          [] OTHER ->
                /\ Style.kind = "raster"
                /\ Len(Style.sources) = Len(SelectedList)
                /\ Len(Style.layers) = Len(SelectedList)
                /\ \A i \in 1..Len(SelectedList) :
                        /\ Style.sources[i].id = <<"custom-tiles-", i - 1>>
                        /\ Style.sources[i].tiles = <<SelectedList[i]>>
                        /\ Style.layers[i].id = <<"custom-layer-", i - 1>>
                        /\ Style.layers[i].source = <<"custom-tiles-", i - 1>>

\* In the dark theme with an empty dark list, a light list of two URLs has
\* given a raster style of two sources
C28_Witness ==
    /\ Resolved
    /\ input.dark
    /\ input.mapTilesDark = <<>>
    /\ Len(input.mapTiles) = 2
    /\ Style.kind = "raster"
    /\ Len(Style.sources) = 2

IsStyleDocumentUrl ==
    \/ SelectedList = <<>>
    \/ Len(SelectedList) = 1 /\ ~HasPlaceholder(SelectedList[1])
CarriesAccessToken(url) ==
    \E i \in 1..Len(url) : url[i] = "access_token="

\* C29: for a style-document URL getMapStyle always resolves: to the bare URL
\* when the fetch throws, the response is not OK or the body is not JSON; to
\* the parsed document when the fetch succeeds, and that document has gone
\* through the Mapbox transform only if the URL has an access_token parameter.
C29_FetchFailureGivesUrl ==
    (Resolved /\ IsStyleDocumentUrl) =>
        /\ input.outcome # "ok" => Style.kind = "url" /\ Style.accessToken = NoUrl
        /\ input.outcome = "ok" => Style.kind = "json"
        /\ Style.accessToken # NoUrl => CarriesAccessToken(Style.url)
        /\ Style.url # NoUrl

\* The body fetched from a URL with a token was not JSON, and the URL is
\* what getMapStyle has given
C29_Witness ==
    /\ Resolved
    /\ IsStyleDocumentUrl
    /\ input.outcome = "invalidJson"
    /\ CarriesAccessToken(Style.url)
    /\ Style.kind = "url"

(***************************************************************************)
(* First load without a configured camera                                  *)
(***************************************************************************)
\* The first dataset update of a view with no configured center, no
\* configured zoom, no restored state and no user movement, with markers
UnsetFirstLoad ==
    /\ hist.updates = 1
    /\ hist.restores = 0
    /\ hist.moves = 0
    /\ config.center = NoStr
    /\ config.defaultZoom = NoNum
    /\ data.present
    /\ ValidMarkers(data.data) # <<>>

MarkerBox == ExtendBounds(EmptyBounds, ValidMarkers(data.data))

\* C30: when that first load is over (the 'load' event has been handled and
\* the first updateMarkers has completed, in whichever order), the camera is
\* centred on the bounding box of the markers and zoomed to fit it.
C30_FitsMarkersOnFirstLoad ==
    (UnsetFirstLoad /\ map.id # 0 /\ ~map.loadPending /\ NoTaskInFlight)
        => /\ map.center = BoundsCenter(MarkerBox)
           /\ map.zoom = ClampZoom(map, FitZoom(MarkerBox))

\* The 'load' event came before updateMarkers had computed the bounds: the
\* first load is over and the camera is where the map was constructed
C30_LoadBeforeBounds ==
    /\ UnsetFirstLoad
    /\ map.id # 0
    /\ ~map.loadPending
    /\ NoTaskInFlight
    /\ SourceExists(map)
    /\ map.center = <<DEFAULT_MAP_CENTER[2], DEFAULT_MAP_CENTER[1]>>
    /\ map.zoom = DEFAULT_MAP_ZOOM

\* What does hold: a 'load' event handled once updateMarkers has computed the
\* bounds centres and fits the camera
C30_FitsWhenBoundsKnown ==
    [][(UnsetFirstLoad /\ map.loadPending /\ ~map'.loadPending /\ bounds.state = "box"
            /\ map'.id = map.id /\ map.id # 0)
        => /\ map'.center = BoundsCenter(MarkerBox)
           /\ map'.zoom = ClampZoom(map, FitZoom(MarkerBox))]_vars

(***************************************************************************)
(* The marker list                                                         *)
(***************************************************************************)
\* The records of the dataset that give a marker: an entry whose accessor
\* does not throw and whose two numbers are a position
GivesMarker(record) ==
    /\ ~record.null
    /\ record.value.kind # "throws"
    /\ coordinateFromValue(record.value) # NoCoordinates
MarkerRecords == {i \in DOMAIN input : GivesMarker(input[i])}

RECURSIVE Remaining(_, _)
Remaining(entry, props) ==
    IF props = <<>> THEN <<>>
    ELSE IF \/ Head(props) \in RoleProperties
            \/ IsEmptyValue(getValue(entry, Head(props)))
        THEN Remaining(entry, Tail(props))
        ELSE <<Head(props)>> \o Remaining(entry, Tail(props))

FirstTwenty(props) == [i \in 1..Min2(Len(props), 20) |-> props[i]]

C32_TitleAndRow ==
    (/\ Done
     /\ input.entry.id = 5
     /\ input.properties = <<TagsProp, MarkerSvgProp, TitleProp>>) =>
        /\ output.content.title = <<TagsProp>>
        /\ output.content.rows = <<TitleProp>>

(***************************************************************************)
(* Backgrounds                                                             *)
(***************************************************************************)
HasTileSet(sets, id) == \E i \in 1..Len(sets) : sets[i].id = id
TileSetWithId(sets, id) == sets[CHOOSE i \in 1..Len(sets) : sets[i].id = id]

\* The tile set an update has to make active: the one active before it when
\* the settings still have it, else the first of the settings
ExpectedTileSet ==
    IF HasTileSet(tileSets', mapConfig.currentTileSetId)
        THEN TileSetWithId(tileSets', mapConfig.currentTileSetId)
        ELSE tileSets'[1]

\* C33: an update of the dataset with no tile URLs of the view's own makes
\* active the tile set that was active or chosen in the switcher before it,
\* if the settings still have its id, else the first tile set of the
\* settings; the dark list is the dark URL, or the light URL when the dark
\* URL is empty.  So the background the user chose is the active one for as
\* long as the updates carry no tile URLs and the settings have it
C33_ChosenBackgroundStays ==
    /\ [][(/\ Called("onDataUpdated")'
           /\ config'.mapTiles = <<>>
           /\ tileSets' # <<>>) =>
            /\ mapConfig'.currentTileSetId = ExpectedTileSet.id
            /\ mapConfig'.mapTiles = <<ExpectedTileSet.lightTiles>>
            /\ mapConfig'.mapTilesDark =
                    IF ExpectedTileSet.darkTiles # NoUrl
                        THEN <<ExpectedTileSet.darkTiles>>
                        ELSE <<ExpectedTileSet.lightTiles>>]_vars
    /\ [](hist.chosen # NoTileSetId => mapConfig.currentTileSetId = hist.chosen)

\* The user chose the second tile set, the first one being the default, and
\* an update of the dataset that came afterwards has run to its end
C33_Witness ==
    /\ hist.chosen = TileSetB.id
    /\ tileSets[1].id = TileSetA.id
    /\ hist.updates = 2
    /\ Called("onDataUpdated")
    /\ NoTaskInFlight
    /\ mapConfig.currentTileSetId = TileSetB.id
    /\ mapConfig.mapTiles = <<TileUrlB>>

(***************************************************************************)
(* Recentring on a re-evaluated center                                     *)
(***************************************************************************)
\* An onDataUpdated is dispatched with the snapshot it had last time, after
\* the first load, with a map and no restore pending
RerenderStep ==
    /\ hist'.updates = hist.updates + 1
    /\ map.id # 0
    /\ ~isFirstLoad
    /\ getConfigSnapshot(config') = lastConfigSnapshot
    /\ pendingMapState.null

Recentred == Called("updateCenter.setCenter")'

\* [lng, lat] of the center the update evaluated
NewTarget == <<mapConfig'.center[2], mapConfig'.center[1]>>

FarFrom(camera, target) ==
    \/ camera[1] - target[1] > CenterTolerance \/ target[1] - camera[1] > CenterTolerance
    \/ camera[2] - target[2] > CenterTolerance \/ target[2] - camera[2] > CenterTolerance

\* C34: with an unchanged snapshot, after the first load and with no restore
\* pending, onDataUpdated moves the camera to the evaluated center exactly
\* when that center differs from the one evaluated at the previous update,
\* is not (0,0) and is more than 1e-5 away from the camera; the zoom stays
C34_RecentreOnReevaluation ==
    [][RerenderStep =>
        /\ Recentred <=> (/\ mapConfig'.center # mapConfig.center
                          /\ mapConfig'.center # <<0, 0>>
                          /\ FarFrom(map.center, NewTarget))
        /\ Recentred => map'.center = NewTarget
        /\ ~Recentred => map'.center = map.center
        /\ map'.zoom = map.zoom]_vars

\* What the code compares with: the center recorded when an update last ran
\* to its end
C34_RecentreOnRecordedCenter ==
    [][RerenderStep =>
        /\ Recentred <=> (/\ mapConfig'.center # lastEvaluatedCenter
                          /\ mapConfig'.center # <<0, 0>>
                          /\ FarFrom(map.center, NewTarget))
        /\ Recentred => map'.center = NewTarget
        /\ ~Recentred => map'.center = map.center
        /\ map'.zoom = map.zoom]_vars

\* A second update with the same literal center, dispatched while the first
\* was loading its images, moved the camera to the configured center
C34_RecentredWithoutChange ==
    /\ hist.updates = 2
    /\ Called("onDataUpdated")
    /\ Called("updateCenter.setCenter")
    /\ config.center = "literal"
    /\ getConfigSnapshot(config) = lastConfigSnapshot
    /\ ~isFirstLoad
    /\ pendingMapState.null
    /\ lastEvaluatedCenter # mapConfig.center

(***************************************************************************)
(* One pixel dimension and a viewBox                                       *)
(***************************************************************************)
ViewBoxWidth(doc) == ViewBoxParts(doc.viewBox)[3].value
ViewBoxHeight(doc) == ViewBoxParts(doc.viewBox)[4].value

\* q is the number that is to `given` as `side` is to `other`
InProportion(q, given, side, other) ==
    q.d # 0 /\ q.n * other = given * side * q.d

\* Width or height is written with a unit other than px
HasOtherUnit(text) == text # NoText /\ ~IsPixels(text)

DerivedAsStated(doc, image) ==
    /\ (WellFormed(doc) /\ HasViewBox(doc) /\ IsPixels(doc.width) /\ ~IsPixels(doc.height)) =>
            /\ ~image.fallback
            /\ image.fixedSize
            /\ image.width = PixelsOf(doc.width)
            /\ InProportion(image.height, PixelsOf(doc.width).n,
                            ViewBoxHeight(doc), ViewBoxWidth(doc))
    /\ (WellFormed(doc) /\ HasViewBox(doc) /\ ~IsPixels(doc.width) /\ IsPixels(doc.height)) =>
            /\ ~image.fallback
            /\ image.fixedSize
            /\ image.height = PixelsOf(doc.height)
            /\ InProportion(image.width, PixelsOf(doc.height).n,
                            ViewBoxWidth(doc), ViewBoxHeight(doc))
    /\ HasOtherUnit(doc.width) => image = createSvgMarkerImage([doc EXCEPT !.width = NoText])
    /\ HasOtherUnit(doc.height) => image = createSvgMarkerImage([doc EXCEPT !.height = NoText])

\* C35: with a viewBox of four numbers and one of width and height in
\* pixels, the other dimension is the given one in the proportion of the
\* viewBox and the image has a fixed size; a width or height with another
\* unit counts as absent
C35_DerivedDimension ==
    output # NoOutput => DerivedAsStated(input, output.image)

\* What does hold: the same when the viewBox has a width and a height
C35_DerivedWithAspectRatio ==
    (output # NoOutput /\ (HasViewBox(input) => ViewBoxWidth(input) > 0 /\ ViewBoxHeight(input) > 0)) =>
        DerivedAsStated(input, output.image)

\* width="24" and viewBox="0 0 0 0": a fixed-size image whose height is
\* 24 times 0 / 0
C35_NoAspectRatio ==
    /\ output # NoOutput
    /\ WellFormed(input)
    /\ input.width = <<"2", "4">>
    /\ ~IsPixels(input.height)
    /\ HasViewBox(input)
    /\ ViewBoxWidth(input) = 0
    /\ output.image.fixedSize
    /\ output.image.height.d = 0

\* width="50%" and height="32px" with viewBox="0 0 24 12": the width is 64
C35_PercentIgnored ==
    /\ output # NoOutput
    /\ WellFormed(input)
    /\ input.width = <<"5", "0", "%">>
    /\ input.height = <<"3", "2", "p", "x">>
    /\ HasViewBox(input)
    /\ ViewBoxWidth(input) = 24 /\ ViewBoxHeight(input) = 12
    /\ output.image.fixedSize
    /\ IsValue(output.image.width, 64)

(***************************************************************************)
(* Features and the marker list                                            *)
(***************************************************************************)
\* The marker a feature points at is the record the feature was built from:
\* it is at the feature's position and has the feature's image (the records
\* of a dataset of the model differ in their coordinates)
PointsAtItsRecord(feature) ==
    /\ markers[feature.entryIndex].coordinates =
            <<feature.coordinates[2], feature.coordinates[1]>>
    /\ ImageKeyOf(markers[feature.entryIndex].entry) = feature.imageKey

\* C36: in every state, for every feature in the 'markers' source whose
\* entryIndex has a marker, that marker is the record the feature was built
\* from, also while an updateMarkers awaits its images
C36_FeatureIndexesItsRecord ==
    map.id # 0 =>
        \A k \in DOMAIN map.features :
            map.features[k].entryIndex \in DOMAIN markers =>
                PointsAtItsRecord(map.features[k])

\* One update is loading its images, no other is in flight, and a feature of
\* the dataset shown before it points at another record of the new list
C36_WrongRecord ==
    /\ map.id # 0
    /\ Cardinality({s \in Slots : tasks[s].pc # "idle"}) = 1
    /\ \E s \in Slots : tasks[s].pc = "loadMarkerImages"
    /\ ~hist.overlapped
    /\ \E k \in DOMAIN map.features :
            /\ map.features[k].entryIndex \in DOMAIN markers
            /\ ~PointsAtItsRecord(map.features[k])


(***************************************************************************)
(* Marker images: the cache and the registry of the current map            *)
(***************************************************************************)
\* A key of the loaded-image cache that the registry of this.map lacks
StaleKeys == {k \in loadedMarkerImages : ~EngineHasImage(map, k)}

\* C37: in every state with a map, every key of the loaded-image cache is
\* registered in the image registry of that map, also after setStyle and
\* after destroyMap followed by a new initializeMap
C37_CachedImagesRegistered == map.id # 0 => StaleKeys = {}

\* The view was unloaded after its first dataset update and destroyMap
\* removed the map; the second update made a new map; nothing is waited
\* for, and the cache names an image that the new map never registered
C37_CacheOutlivesMap ==
    /\ map.id # 0
    /\ mapsCreated = 2
    /\ hist.unloaded
    /\ ~hist.tornDown
    /\ hist.updates = 2
    /\ hist.events = 1
    /\ ~hist.overlapped
    /\ NoTaskInFlight
    /\ StaleKeys # {}

\* What does hold: while the view has made one map only, every cached key is
\* registered, whether or not the engine keeps its images over setStyle
C37_RegisteredOnFirstMap == (map.id # 0 /\ mapsCreated = 1) => StaleKeys = {}


(***************************************************************************)
(* First load                                                              *)
(***************************************************************************)
\* The step calls applyConfigToMap while isFirstLoad is true
FirstLoadBranch == \E i \in CallsOf("applyConfigToMap") : calls[i].ctx.firstLoad

\* C38: applyConfigToMap runs with isFirstLoad true for exactly one dataset
\* update of a view instance, also when a second onDataUpdated is dispatched
\* while the first awaits its style, and once no update is in flight
\* lastConfigSnapshot is the snapshot of the most recent update
C38_FirstLoadOnce ==
    /\ hist.firstLoads <= 1
    /\ (~isFirstLoad => hist.firstLoads = 1)
    /\ (NoTaskInFlight /\ hist.updates > 0 /\ ~Called("TypeError")) =>
            lastConfigSnapshot = getConfigSnapshot(config)

\* A second update was dispatched while the first was fetching the style in
\* applyConfigToMap, and its applyConfigToMap finds isFirstLoad still true
C38_SecondFirstLoad ==
    /\ hist.firstLoads = 2
    /\ FirstLoadBranch
    /\ mapsCreated = 1
    /\ \E s \in Slots : /\ tasks[s].pc = "applyConfigToMap.getMapStyle"
                        /\ tasks[s].decided.firstLoad

\* Both updates have run to their end, and lastConfigSnapshot is the
\* snapshot of the first, whose style fetch answered last
C38_StaleSnapshot ==
    /\ NoTaskInFlight
    /\ hist.updates = 2
    /\ hist.firstLoads = 2
    /\ mapsCreated = 1
    /\ lastConfigSnapshot # getConfigSnapshot(config)

\* What does hold: unless a second update is dispatched before the first has
\* finished its style fetches, the first-load branch runs once, for the
\* first update, and lastConfigSnapshot follows the updates
C38_FirstLoadOnceInSequence ==
    (hist.firstLoads <= 1 /\ mapsCreated <= 1) =>
        /\ (~isFirstLoad => hist.firstLoads = 1)
        /\ (NoTaskInFlight /\ hist.updates > 0) =>
                lastConfigSnapshot = getConfigSnapshot(config)


(***************************************************************************)
(* Restored states without a camera                                        *)
(***************************************************************************)
\* The state carries neither a numeric center nor a numeric zoom
CarriesNothing(state) == ~state.hasCenter /\ ~state.hasZoom

\* The one state restored so far carried nothing, and the user moved nothing
OnlyNothingRestored ==
    /\ hist.restores = 1
    /\ CarriesNothing(hist.restored)
    /\ hist.moves = 0

\* The step handles the 'load' event of this.map
LoadStep == map.id # 0 /\ map.loadPending /\ map'.id = map.id /\ ~map'.loadPending

\* The camera the 'load' handler leaves when no restore was ever pending
PlacedByLoad ==
    LoadHandler([World EXCEPT !.pendingMapState = NoPending,
                              !.map.loadPending = FALSE], FALSE).map

\* C39: restoring a state with neither a numeric center nor a numeric zoom
\* leaves no pending restore, and the next 'load' places the camera as it
\* does when nothing was restored: at the configured center and zoom, or
\* centred on and fitted to the markers
C39_EmptyRestoreNotPending ==
    /\ [][(Called("setEphemeralState")' /\ CarriesNothing(hist'.restored))
            => pendingMapState'.null]_vars
    /\ [][(LoadStep /\ OnlyNothingRestored)
            => /\ map'.center = PlacedByLoad.center
               /\ map'.zoom = PlacedByLoad.zoom]_vars

\* {} was restored before the first update of a view with no configured
\* center or zoom; the update has run to its end, the bounds of the markers
\* were known when 'load' was handled, and the camera is still where the map
\* was constructed
C39_PlacementSkipped ==
    /\ OnlyNothingRestored
    /\ ~hist.restored.falsy
    /\ hist.restoredNoMap
    /\ hist.updates = 1
    /\ config = UnsetConfig
    /\ NoTaskInFlight
    /\ map.id # 0
    /\ ~map.loadPending
    /\ Called("load")
    /\ bounds.state = "box"
    /\ map.center # BoundsCenter(bounds)
    /\ map.center = <<DEFAULT_MAP_CENTER[2], DEFAULT_MAP_CENTER[1]>>
    /\ map.zoom = DEFAULT_MAP_ZOOM

\* What does hold: a null or undefined state leaves no pending restore
C39_NoStateNotPending ==
    [][(Called("setEphemeralState")' /\ hist'.restored.falsy)
            => pendingMapState'.null]_vars

====
